---- MODULE Spec2Model ----
(***************************************************************************)
(* Gram-Analyzer: the account synchronization engine.                      *)
(*                                                                         *)
(* The module models, from the Python sources under src/api/app:           *)
(*   - routes/analytics.py : can_sync, sync_analytics, perform_sync        *)
(*   - analytics_service.py: compute_analytics, save_snapshot,             *)
(*                           get_previous_followers, cache_analytics       *)
(*   - instagram_service.py: login, complete_2fa, complete_challenge,      *)
(*                           cleanup_expired_challenges, get_followers,    *)
(*                           get_following                                 *)
(*   - rate_limiter.py     : RateLimiter.check_rate_limit                  *)
(*   - image_cache_service.py: cache_profile_pictures,                     *)
(*                           download_profile_pic                          *)
(*                                                                         *)
(* The server is one asyncio event loop: the code between two awaits that  *)
(* really suspend runs without interleaving, so every action below is one  *)
(* such stretch of code.  A coroutine awaited directly that contains no    *)
(* suspending await (validate_session, get_followers, get_following) does  *)
(* not yield and belongs to the stretch of its caller.  A database call is *)
(* one action: the statement takes effect and the caller runs on to its    *)
(* next await, or the call raises.                                         *)
(*                                                                         *)
(* Specifications:                                                         *)
(*   Spec      sync requests and background sync runs                      *)
(*   FairSpec  the requests and runs of one tick, with the event loop's    *)
(*             fairness for started tasks                                  *)
(*   TailSpec  two requests met by a sync that is past its completion mark *)
(*   AuthSpec  the login state machine and its challenge table             *)
(*   RateSpec  the calls of the rate limiter                               *)
(*   ComputeSpec  compute_analytics on every small argument list           *)
(*   OverlapSpec  two overlapping runs of one account, as TailSpec leaves  *)
(*                them, under a clock that ticks during database calls     *)
(*   CooldownSpec  can_sync on every stored time, clock and cooldown       *)
(*   ReadSpec     the GET endpoints of routes/analytics.py                 *)
(*   CacheSpec    the cache_profile_pictures tasks of two syncs and the    *)
(*                process-wide image_cache_status                          *)
(***************************************************************************)
EXTENDS Integers, Sequences, FiniteSets, TLC

VARIABLES
    now,                 \* the wall clock (datetime.utcnow()), in ticks
    sync_cooldown_hours, \* settings.sync_cooldown_hours
    users,               \* users table: user_id -> row (last_sync_at)
    followers_snapshot,  \* followers_snapshot table: set of rows
    following_snapshot,  \* following_snapshot table: set of rows
    analytics_cache,     \* analytics_cache table: user_id -> row (unique user_id)
    sync_status,         \* routes/analytics.py sync_status: status_key -> SyncStatus
    req,                 \* POST /analytics/sync requests in flight
    run,                 \* perform_sync background tasks
    writes,              \* history: what each run has changed in the store
    image_tasks,         \* cache_profile_pictures tasks created by the runs
    storage_faults,      \* how many database calls have raised
    pending_challenges,  \* instagram_service.py pending_challenges: session_id -> dict
    logins,              \* InstagramService.login calls
    completions,         \* complete_2fa / complete_challenge calls
    next_uuid,           \* how many session ids uuid.uuid4() has handed out
    requests,            \* RateLimiter.requests: identifier -> [(timestamp, count)]
    limits,              \* the max_requests and window_seconds the callers pass
    checks,              \* check_rate_limit calls and what each returned
    arguments,           \* the arguments of a compute_analytics call
    report,              \* what the compute_analytics call returned
    hash_seed,           \* PYTHONHASHSEED of the running process (str hashes)
    report_again,        \* what a second call with the same arguments returned
    gets,                \* GET /analytics/... requests in flight
    image_cache_status,  \* image_cache_service.py image_cache_status
    profile_pics,        \* the ids whose picture is in PROFILE_PICS_DIR
    cache_tasks          \* cache_profile_pictures tasks and where each stands

vars == <<now, sync_cooldown_hours, users, followers_snapshot, following_snapshot,
          analytics_cache, sync_status, req, run, writes, image_tasks,
          storage_faults, pending_challenges, logins, completions, next_uuid,
          requests, limits, checks, arguments, report, hash_seed, report_again,
          gets, image_cache_status, profile_pics, cache_tasks>>

syncVars == <<sync_cooldown_hours, users, followers_snapshot, following_snapshot,
              analytics_cache, sync_status, req, run, writes, image_tasks,
              storage_faults>>

authVars == <<pending_challenges, logins, completions, next_uuid>>

limiterVars == <<requests, limits, checks>>

computeVars == <<arguments, report, hash_seed, report_again>>

readVars == <<gets>>

cacheVars == <<image_cache_status, profile_pics, cache_tasks>>

\* what the sync engine and the login state machine never touch
utilVars == <<limiterVars, computeVars, readVars, cacheVars>>

storeVars == <<users, followers_snapshot, following_snapshot, analytics_cache>>

(***************************************************************************)
(* Bounds of the model.                                                    *)
(***************************************************************************)
\* number of POST /analytics/sync requests (each may start one run)
MaxReqs == 2
\* the clock stops MaxNow ticks after the process has started
MaxNow == 2
\* scale of the clock: ticks in a second, in an hour, in a calendar day
SecondTicks == 2
HourTicks == 2
DayTicks == 2
\* the cooldown settings tried (0 disables the guard)
MaxCooldownHours == 1
\* how many database calls may raise in one behaviour
MaxStorageFaults == 1

Reqs == 1..MaxReqs
\* the background tasks: the one request q starts is task q; task 0 is a run
\* started before the behaviour begins (TailSpec), absent under Spec
Runs == 0..MaxReqs
Accounts == {1}
\* the process starts on day 2: days 0 and 1 are the past of the database
StartTick == 2 * DayTicks
LastTick == StartTick + MaxNow

\* Optional[datetime]: None
NoTime == -1

(***************************************************************************)
(* Relationship entities (models.py InstagramUser).  A username is a       *)
(* string, modelled as the sequence of its code points.                    *)
(***************************************************************************)
InstagramUser(id, name) == [ig_id |-> id, username |-> name]

U1 == InstagramUser(1, <<97>>)
U2 == InstagramUser(2, <<66>>)

\* what the remote platform may return for a follower / following list
RemoteLists == {<<U1>>, <<U2, U1>>}

\* Optional[list]
None == [some |-> FALSE, val |-> << >>]
Some(l) == [some |-> TRUE, val |-> l]

SeqToSet(s) == {s[i] : i \in 1..Len(s)}

\* every order in which the elements of a set may be enumerated
RECURSIVE Perms(_)
Perms(S) ==
    IF S = {} THEN {<< >>}
    ELSE UNION {{<<x>> \o p : p \in Perms(S \ {x})} : x \in S}

(***************************************************************************)
(* analytics_service.py: compute_analytics                                 *)
(***************************************************************************)
\* str.lower() on code points
Lower(c) == IF c \in 65..90 THEN c + 32 ELSE c
LowerStr(s) == [i \in 1..Len(s) |-> Lower(s[i])]

\* Python's order on strings: by code point, a proper prefix first
RECURSIVE StrLess(_, _)
StrLess(a, b) ==
    IF b = << >> THEN FALSE
    ELSE IF a = << >> THEN TRUE
    ELSE IF Head(a) # Head(b) THEN Head(a) < Head(b)
    ELSE StrLess(Tail(a), Tail(b))

\* the sort key of lines 71-75: lambda x: x.username.lower()
SortKey(u) == LowerStr(u.username)

\* list.insert for a stable sort: after every element whose key is not greater
RECURSIVE InsertSorted(_, _)
InsertSorted(u, s) ==
    IF s = << >> THEN <<u>>
    ELSE IF StrLess(SortKey(u), SortKey(Head(s))) THEN <<u>> \o s
    ELSE <<Head(s)>> \o InsertSorted(u, Tail(s))

\* sorted(l, key=lambda x: x.username.lower()): stable
RECURSIVE SortedByUsername(_)
SortedByUsername(l) ==
    IF l = << >> THEN << >>
    ELSE InsertSorted(l[Len(l)], SortedByUsername(SubSeq(l, 1, Len(l) - 1)))

\* a set comprehension that misses the last element.  C20 fails of it.
IdSet_without_last(l) == {l[i].ig_id : i \in 1..(Len(l) - 1)}

\* {f.ig_id for f in l}
IdSet(l) == {l[i].ig_id : i \in 1..Len(l)}

\* {f.ig_id: f for f in l}[id]: a later entry of the list replaces an earlier one
MapAt(l, id) ==
    l[CHOOSE i \in 1..Len(l) :
        /\ l[i].ig_id = id
        /\ \A j \in 1..Len(l) : l[j].ig_id = id => j <= i]

\* a comprehension that returns the whole list, whatever the ids.  C22 fails
\* of it.
ListsOver_whole(l, ids) == {l}

\* [m[id] for id in ids]: a set is enumerated in an order the code does not fix
ListsOver(l, ids) == {[i \in 1..Len(p) |-> MapAt(l, p[i])] : p \in Perms(ids)}

\* compute_analytics with the mutual friends taken from following_map.  C34
\* fails of it.
compute_analytics_mutual_of_following(followers, following, previous_followers, t) ==
    LET follower_ids == IdSet(followers)
        following_ids == IdSet(following)
        prev == previous_followers.val
        \* line 45: "if previous_followers:" is false for None and for []
        supplied == previous_followers.some /\ prev # << >>
        news == IF supplied THEN ListsOver(followers, follower_ids \ IdSet(prev))
                ELSE {<< >>}
        losts == IF supplied THEN ListsOver(prev, IdSet(prev) \ follower_ids)
                 ELSE {<< >>}
    IN  {[overview |->
            [total_followers |-> Len(followers),
             total_following |-> Len(following),
             not_following_back |-> Len(nfb),
             not_followed_back |-> Len(nfd),
             mutual_friends |-> Len(mut),
             new_followers |-> Len(nw),
             lost_followers |-> Len(lost),
             last_sync |-> t],
          followers |-> SortedByUsername(followers),
          following |-> SortedByUsername(following),
          not_following_back |-> SortedByUsername(nfb),
          not_followed_back |-> SortedByUsername(nfd),
          mutual_friends |-> SortedByUsername(mut),
          new_followers |-> nw,
          lost_followers |-> lost] :
         nfb \in ListsOver(following, following_ids \ follower_ids),
         nfd \in ListsOver(followers, follower_ids \ following_ids),
         mut \in ListsOver(following, follower_ids \cap following_ids),
         nw \in news,
         lost \in losts}

\* lines 14-78; the set of reports the call may return at time t
compute_analytics(followers, following, previous_followers, t) ==
    LET follower_ids == IdSet(followers)
        following_ids == IdSet(following)
        prev == previous_followers.val
        \* line 45: "if previous_followers:" is false for None and for []
        supplied == previous_followers.some /\ prev # << >>
        news == IF supplied THEN ListsOver(followers, follower_ids \ IdSet(prev))
                ELSE {<< >>}
        losts == IF supplied THEN ListsOver(prev, IdSet(prev) \ follower_ids)
                 ELSE {<< >>}
    IN  {[overview |->
            [total_followers |-> Len(followers),
             total_following |-> Len(following),
             not_following_back |-> Len(nfb),
             not_followed_back |-> Len(nfd),
             mutual_friends |-> Len(mut),
             new_followers |-> Len(nw),
             lost_followers |-> Len(lost),
             last_sync |-> t],
          followers |-> SortedByUsername(followers),
          following |-> SortedByUsername(following),
          not_following_back |-> SortedByUsername(nfb),
          not_followed_back |-> SortedByUsername(nfd),
          mutual_friends |-> SortedByUsername(mut),
          new_followers |-> nw,
          lost_followers |-> lost] :
         nfb \in ListsOver(following, following_ids \ follower_ids),
         nfd \in ListsOver(followers, follower_ids \ following_ids),
         mut \in ListsOver(followers, follower_ids \cap following_ids),
         nw \in news,
         lost \in losts}

(***************************************************************************)
(* Time.                                                                   *)
(***************************************************************************)
\* DATE(snapshot_date), and snapshot_date.replace(hour=0, ...) of line 90
DateOf(t) == t \div DayTicks
today_start(t) == DateOf(t) * DayTicks

\* timedelta(hours=settings.sync_cooldown_hours)
cooldown(hours) == hours * HourTicks

\* can_sync without the cooldown: every request may sync.  C5 fails of it.
can_sync_no_cooldown(last_sync, t, hours) ==
    [allowed |-> TRUE, seconds_remaining |-> 0]

\* can_sync with a strict comparison: a sync exactly one cooldown after the
\* last one is still refused.  C29 fails of it.
can_sync_strict(last_sync, t, hours) ==
    IF last_sync = NoTime THEN [allowed |-> TRUE, seconds_remaining |-> NoTime]
    ELSE IF t > last_sync + cooldown(hours)
    THEN [allowed |-> TRUE, seconds_remaining |-> NoTime]
    ELSE [allowed |-> FALSE,
          seconds_remaining |-> (last_sync + cooldown(hours) - t) \div SecondTicks]

\* routes/analytics.py lines 33-53: (can_sync, seconds_until_next_sync)
can_sync(last_sync, t, hours) ==
    IF last_sync = NoTime THEN [allowed |-> TRUE, seconds_remaining |-> NoTime]
    ELSE LET next_sync_time == last_sync + cooldown(hours)
         IN  IF t >= next_sync_time
             THEN [allowed |-> TRUE, seconds_remaining |-> NoTime]
             ELSE [allowed |-> FALSE,
                   \* int(timedelta.total_seconds()) truncates
                   seconds_remaining |-> (next_sync_time - t) \div SecondTicks]

(***************************************************************************)
(* analytics_service.py: get_previous_followers, the two queries           *)
(***************************************************************************)
\* lines 138-146: the distinct snapshot dates of the user, most recent first,
\* LIMIT 2.  The query is modelled by what it is written to select; its text
\* has ": user_id" (line 141), and a call that raises instead is StorageRaises
RECURSIVE DescList(_)
DescList(S) ==
    IF S = {} THEN << >>
    ELSE LET m == CHOOSE x \in S : \A y \in S : y <= x
         IN  <<m>> \o DescList(S \ {m})

FirstTwo(s) == IF Len(s) <= 2 THEN s ELSE SubSeq(s, 1, 2)

snap_dates(rows, user_id) ==
    FirstTwo(DescList({DateOf(r.snapshot_date) : r \in {x \in rows : x.user_id = user_id}}))

\* lines 155-173: SELECT DISTINCT ... WHERE DATE(snapshot_date) = :prev_date;
\* the rows come back in an order the query does not fix
date_followers(rows, user_id, prev_date) ==
    Perms({InstagramUser(r.ig_id, r.username) :
             r \in {x \in rows : x.user_id = user_id /\ DateOf(x.snapshot_date) = prev_date}})

\* one row of followers_snapshot / following_snapshot
SnapshotRow(user_id, t, u) ==
    [user_id |-> user_id, snapshot_date |-> t, ig_id |-> u.ig_id, username |-> u.username]

\* lines 92-103: DELETE ... WHERE user_id = .. AND snapshot_date >= today_start
delete_today(rows, user_id, start) ==
    {r \in rows : ~(r.user_id = user_id /\ r.snapshot_date >= start)}

(***************************************************************************)
(* instagram_service.py: get_followers / get_following                     *)
(***************************************************************************)
\* what client.user_followers / client.user_following does: it returns the
\* users, or raises.  A ClientBadRequestError carries a message that may or may
\* not mention "400" / "bad request".
RemoteResponses ==
    {[kind |-> "ok", users |-> l, mentions_400 |-> FALSE] : l \in RemoteLists}
    \cup {[kind |-> "ClientBadRequestError", users |-> << >>, mentions_400 |-> b] :
            b \in BOOLEAN}
    \cup {[kind |-> k, users |-> << >>, mentions_400 |-> FALSE] :
            k \in {"PleaseWaitFewMinutes", "Exception"}}

RestrictedMessage == "Instagram temporarily restricted access. Try again in 1-24 hours."
RateLimitMessage == "Instagram rate limit hit. Please wait a few minutes and try again."

\* get_followers without the PleaseWaitFewMinutes handler of lines 393-396:
\* the exception leaves the call as it is.  C3 fails of it.
get_followers_no_wait_handler(resp) ==
    IF resp.kind = "ok"
    THEN [raised |-> "none", result |-> resp.users, message |-> ""]
    ELSE IF resp.kind = "ClientBadRequestError" /\ resp.mentions_400
    THEN [raised |-> "InstagramRateLimitError", result |-> << >>,
          message |-> RestrictedMessage]
    ELSE [raised |-> resp.kind, result |-> << >>, message |-> ""]

\* get_followers with every failure turned into the rate-limit error.  C4
\* fails of it.
get_followers_all_rate_limited(resp) ==
    IF resp.kind = "ok"
    THEN [raised |-> "none", result |-> resp.users, message |-> ""]
    ELSE [raised |-> "InstagramRateLimitError", result |-> << >>,
          message |-> RateLimitMessage]

\* lines 353-400 (get_following, lines 403-448, has the same shape): the list,
\* or the exception that leaves the call
get_followers(resp) ==
    IF resp.kind = "ok"
    THEN [raised |-> "none", result |-> resp.users, message |-> ""]
    ELSE IF resp.kind = "ClientBadRequestError"
    THEN IF resp.mentions_400
         THEN [raised |-> "InstagramRateLimitError", result |-> << >>,
               message |-> RestrictedMessage]
         ELSE [raised |-> "ClientBadRequestError", result |-> << >>, message |-> ""]
    ELSE IF resp.kind = "PleaseWaitFewMinutes"
    THEN [raised |-> "InstagramRateLimitError", result |-> << >>,
          message |-> RateLimitMessage]
    ELSE [raised |-> resp.kind, result |-> << >>, message |-> ""]

get_following(resp) == get_followers(resp)

(***************************************************************************)
(* routes/analytics.py: the status registry, the sync request              *)
(***************************************************************************)
\* a status record that never says it is syncing.  C30 fails of it.
SyncStatus_not_syncing(is_syncing, progress, current_task, last_sync) ==
    [is_syncing |-> FALSE, progress |-> progress,
     current_task |-> current_task, last_sync |-> last_sync]

SyncStatus(is_syncing, progress, current_task, last_sync) ==
    [is_syncing |-> is_syncing, progress |-> progress,
     current_task |-> current_task, last_sync |-> last_sync]

\* line 222: f"sync_{user_id}"
status_key_of(user_id) == <<"sync", user_id>>

NoResponse == [success |-> FALSE, message |-> "none"]

\* how a fetch of a run went: what the remote client did
NoFetch == [kind |-> "none", mentions_400 |-> FALSE]
FetchOf(resp) == [kind |-> resp.kind, mentions_400 |-> resp.mentions_400]

IdleReq == [pc |-> "idle", user_id |-> 0, force |-> FALSE, last_sync |-> NoTime,
            response |-> NoResponse]

IdleRun == [pc |-> "none", user_id |-> 0, outcome |-> "none",
            previous_followers |-> None, prev_date |-> NoTime,
            followers |-> << >>, following |-> << >>,
            followers_fetch |-> NoFetch, following_fetch |-> NoFetch,
            analytics |-> None, snapshot_date |-> NoTime, i |-> 0,
            existing |-> FALSE, before |-> << >>, wrote |-> << >>]

\* the awaits of perform_sync that are database calls
DbPcs == {"prev_dates", "prev_rows", "delete_followers", "delete_following",
          "insert_follower", "insert_following", "cache_select", "cache_write",
          "update_user", "fetch_user"}

\* lines 335-337, update_follower_progress: the callback get_followers calls
\* once the remote call has returned.  int() of the float product is taken
\* as the floor of the exact quotient.
update_follower_progress(current, total) ==
    IF total > 0 THEN 20 + ((current * 25) \div total) ELSE 20

\* lines 361-363, update_following_progress
update_following_progress(current, total) ==
    IF total > 0 THEN 50 + ((current * 25) \div total) ELSE 50

\* in-place update of the record under a status key
WithStatus(st, key, is_syncing, progress, current_task) ==
    [st EXCEPT ![key] = [@ EXCEPT !.is_syncing = is_syncing,
                                  !.progress = progress,
                                  !.current_task = current_task]]

\* auth.py lines 34-63, get_current_user: the dependency of the request reads
\* the user row; the handler runs later with that row
GetCurrentUser(q, a, force) ==
    /\ req[q].pc = "idle"
    /\ req' = [req EXCEPT ![q] = [pc |-> "authed", user_id |-> a, force |-> force,
                                  last_sync |-> users[a].last_sync_at,
                                  response |-> NoResponse]]
    /\ UNCHANGED <<now, sync_cooldown_hours, storeVars, sync_status, run, writes,
                   image_tasks, storage_faults, authVars, utilVars>>

\* routes/analytics.py lines 192-250, sync_analytics: no await, one step
sync_analytics(q) ==
    /\ req[q].pc = "authed"
    \* the requests are numbered in the order their handlers run
    /\ \A p \in Reqs : p < q => req[p].pc = "done"
    /\ LET user_id == req[q].user_id
           status_key == status_key_of(user_id)
           check == can_sync(req[q].last_sync, now, sync_cooldown_hours)
       IN  IF ~req[q].force /\ ~check.allowed
           THEN \* lines 209-219
                /\ req' = [req EXCEPT ![q].pc = "done", ![q].force = FALSE,
                             ![q].last_sync = NoTime,
                             ![q].response =
                                [success |-> FALSE, message |-> "Please wait",
                                 can_sync |-> FALSE,
                                 seconds_until_next_sync |-> check.seconds_remaining]]
                /\ UNCHANGED <<sync_status, run>>
           ELSE IF status_key \in DOMAIN sync_status /\ sync_status[status_key].is_syncing
           THEN \* lines 221-228
                /\ req' = [req EXCEPT ![q].pc = "done", ![q].force = FALSE,
                             ![q].last_sync = NoTime,
                             ![q].response =
                                [success |-> FALSE, message |-> "Sync already in progress",
                                 status |-> sync_status[status_key]]]
                /\ UNCHANGED <<sync_status, run>>
           ELSE \* lines 230-250
                LET started == SyncStatus(TRUE, 0, "Starting sync...", NoTime)
                IN  /\ sync_status' =
                          [k \in DOMAIN sync_status \cup {status_key} |->
                              IF k = status_key THEN started ELSE sync_status[k]]
                    /\ run' = [run EXCEPT ![q] = [IdleRun EXCEPT !.pc = "queued",
                                                               !.user_id = user_id]]
                    /\ req' = [req EXCEPT ![q].pc = "done", ![q].force = FALSE,
                             ![q].last_sync = NoTime,
                                 ![q].response =
                                    [success |-> TRUE, message |-> "Sync started",
                                     status |-> started]]
    /\ UNCHANGED <<now, sync_cooldown_hours, storeVars, writes, image_tasks, storage_faults, authVars, utilVars>>

(***************************************************************************)
(* routes/analytics.py lines 271-435: perform_sync, one action per stretch *)
(* of code between two suspending awaits                                   *)
(***************************************************************************)
Key(r) == status_key_of(run[r].user_id)

\* the task has returned: its locals are gone; what is kept of it is how it
\* ended, how its two fetches went and, of a sync that has marked itself
\* complete, the snapshot_date its rows were stored under.  wrote is
\* history: the progress values the last writing step of the task stored
Finished(rec, outcome) ==
    [IdleRun EXCEPT !.pc = "finished", !.user_id = rec.user_id, !.outcome = outcome,
                    !.wrote = rec.wrote,
                    !.followers_fetch = rec.followers_fetch,
                    !.following_fetch = rec.following_fetch,
                    !.snapshot_date = IF outcome \in {"complete", "complete_then_error"}
                                      THEN rec.snapshot_date ELSE NoTime]

\* a terminal update that forgets is_syncing.  C2 fails of it.
EndWith_task_only(st, key, current_task) ==
    [st EXCEPT ![key] = [@ EXCEPT !.current_task = current_task]]

\* a terminal status update that leaves progress as it is (lines 299-300,
\* 308-309, 318-319, 345-346, 371-372, 434-435)
EndWith(st, key, current_task) ==
    [st EXCEPT ![key] = [@ EXCEPT !.is_syncing = FALSE, !.current_task = current_task]]

\* lines 287-305: restore the session, then the first delay
SyncStart(r) ==
    /\ run[r].pc = "queued"
    /\ \E loaded \in BOOLEAN :
         LET st == WithStatus(sync_status, Key(r), sync_status[Key(r)].is_syncing, 5,
                              "Restoring session...")
         IN  IF ~loaded
             THEN /\ sync_status' = EndWith(st, Key(r), "Session expired. Please login again.")
                  /\ run' = [run EXCEPT ![r] = Finished([run[r] EXCEPT !.wrote = <<5>>],
                                                         "session_expired")]
             ELSE /\ sync_status' = st
                  \* history: the store as the task found it
                  /\ run' = [run EXCEPT ![r].pc = "delay1", ![r].before = storeVars,
                                        ![r].wrote = <<5>>]
    /\ UNCHANGED <<now, sync_cooldown_hours, storeVars, req, writes, image_tasks, storage_faults, authVars, utilVars>>

\* lines 307-326: restore again, validate, ask for the snapshot dates
SyncValidate(r) ==
    /\ run[r].pc = "delay1"
    /\ \E loaded \in BOOLEAN, valid \in BOOLEAN :
         IF ~loaded
         THEN /\ sync_status' = EndWith(sync_status, Key(r),
                                        "Session expired. Please login again.")
              /\ run' = [run EXCEPT ![r] = Finished(run[r], "session_expired")]
         ELSE IF ~valid
         THEN /\ sync_status' =
                    EndWith(WithStatus(sync_status, Key(r), sync_status[Key(r)].is_syncing,
                                       8, "Validating session..."),
                            Key(r), "Session invalid. Please login again.")
              /\ run' = [run EXCEPT ![r] = Finished([run[r] EXCEPT !.wrote = <<8>>],
                                                     "session_invalid")]
         ELSE /\ sync_status' = WithStatus(sync_status, Key(r),
                                           sync_status[Key(r)].is_syncing, 10,
                                           "Loading previous data...")
              /\ run' = [run EXCEPT ![r].pc = "prev_dates", ![r].wrote = <<8, 10>>]
    /\ UNCHANGED <<now, sync_cooldown_hours, storeVars, req, writes, image_tasks, storage_faults, authVars, utilVars>>

\* lines 329-353: with the previous followers in hand, fetch the followers
FetchFollowers(r, previous_followers) ==
    \E resp \in RemoteResponses :
       LET got == get_followers(resp)
           st == WithStatus(sync_status, Key(r), sync_status[Key(r)].is_syncing, 20,
                            "Fetching followers...")
           rec == [run[r] EXCEPT !.previous_followers = previous_followers,
                                 !.followers_fetch = FetchOf(resp),
                                 !.wrote = <<20>>]
           \* instagram_service.py lines 374-375: progress_callback(len, len)
           called == update_follower_progress(Len(got.result), Len(got.result))
       IN  IF got.raised = "none"
           THEN \* lines 339-342
                /\ sync_status' =
                      WithStatus(WithStatus(st, Key(r), st[Key(r)].is_syncing, called,
                                            "Fetching followers..."),
                                 Key(r), st[Key(r)].is_syncing, 45, "Found followers")
                /\ run' = [run EXCEPT ![r] = [rec EXCEPT !.followers = got.result,
                                                         !.pc = "delay2",
                                                         !.wrote = <<20, called, 45>>]]
           ELSE IF got.raised = "InstagramRateLimitError"
           THEN \* lines 343-347
                /\ sync_status' = EndWith(st, Key(r), got.message)
                /\ run' = [run EXCEPT ![r] = Finished(rec, "rate_limited")]
           ELSE \* lines 348-351: continue with the empty list
                /\ sync_status' = st
                /\ run' = [run EXCEPT ![r] = [rec EXCEPT !.pc = "delay2"]]

\* analytics_service.py lines 138-153: the first query of get_previous_followers
PrevDates(r) ==
    /\ run[r].pc = "prev_dates"
    /\ LET rows == snap_dates(followers_snapshot, run[r].user_id)
       IN  IF Len(rows) < 2
           THEN FetchFollowers(r, None)
           ELSE /\ run' = [run EXCEPT ![r].pc = "prev_rows", ![r].prev_date = rows[2]]
                /\ UNCHANGED sync_status
    /\ UNCHANGED <<now, sync_cooldown_hours, storeVars, req, writes, image_tasks, storage_faults, authVars, utilVars>>

\* analytics_service.py lines 155-173: the second query
PrevRows(r) ==
    /\ run[r].pc = "prev_rows"
    /\ \E l \in date_followers(followers_snapshot, run[r].user_id, run[r].prev_date) :
          FetchFollowers(r, Some(l))
    /\ UNCHANGED <<now, sync_cooldown_hours, storeVars, req, writes, image_tasks, storage_faults, authVars, utilVars>>

\* lines 355-393 and analytics_service.py lines 87-92: fetch the following,
\* compute the report, enter save_snapshot
FetchFollowing(r) ==
    /\ run[r].pc = "delay2"
    /\ \E resp \in RemoteResponses :
         LET got == get_following(resp)
             st == WithStatus(sync_status, Key(r), sync_status[Key(r)].is_syncing, 50,
                              "Fetching following...")
             rec == [run[r] EXCEPT !.following_fetch = FetchOf(resp), !.wrote = <<50>>]
             \* instagram_service.py lines 419-420: progress_callback(len, len)
             called == update_following_progress(Len(got.result), Len(got.result))
             \* lines 365-368: the callback and 75 are stored only if the call
             \* returns
             fetched == IF got.raised = "none"
                        THEN WithStatus(WithStatus(st, Key(r), st[Key(r)].is_syncing,
                                                   called, "Fetching following..."),
                                        Key(r), st[Key(r)].is_syncing, 75,
                                        "Found following")
                        ELSE st
         IN  IF got.raised = "InstagramRateLimitError"
             THEN \* lines 369-373
                  /\ sync_status' = EndWith(st, Key(r), got.message)
                  /\ run' = [run EXCEPT ![r] = Finished(rec, "rate_limited")]
             ELSE \* lines 365-368 or 374-377, then 379-393
                  \E analytics \in compute_analytics(run[r].followers, got.result,
                                                     run[r].previous_followers, now) :
                     /\ sync_status' =
                           WithStatus(WithStatus(fetched, Key(r), st[Key(r)].is_syncing,
                                                 85, "Computing analytics..."),
                                      Key(r), st[Key(r)].is_syncing, 90, "Saving data...")
                     /\ run' = [run EXCEPT ![r] =
                                  [rec EXCEPT !.following = got.result,
                                              !.analytics = Some(analytics),
                                              !.snapshot_date = now,
                                              !.pc = "delete_followers",
                                              !.wrote = IF got.raised = "none"
                                                        THEN <<50, called, 75, 85, 90>>
                                                        ELSE <<50, 85, 90>>]]
    /\ UNCHANGED <<now, sync_cooldown_hours, storeVars, req, writes, image_tasks, storage_faults, authVars, utilVars>>

\* where save_snapshot goes once the followers from index i on are stored
AfterFollowers(rec, i) ==
    IF i <= Len(rec.followers) THEN [rec EXCEPT !.pc = "insert_follower", !.i = i]
    ELSE IF rec.following # << >> THEN [rec EXCEPT !.pc = "insert_following", !.i = 1]
    ELSE [rec EXCEPT !.pc = "cache_select", !.i = 0]

\* save_snapshot followed at once by the update of the user row, the cache
\* left out.  C31 fails of it.
AfterFollowing_skips_cache(rec, i) ==
    IF i <= Len(rec.following) THEN [rec EXCEPT !.pc = "insert_following", !.i = i]
    ELSE [rec EXCEPT !.pc = "update_user", !.i = 0]

AfterFollowing(rec, i) ==
    IF i <= Len(rec.following) THEN [rec EXCEPT !.pc = "insert_following", !.i = i]
    ELSE [rec EXCEPT !.pc = "cache_select", !.i = 0]

\* analytics_service.py lines 92-97: delete today's follower rows
DeleteFollowers(r) ==
    /\ run[r].pc = "delete_followers"
    /\ followers_snapshot' = delete_today(followers_snapshot, run[r].user_id,
                                          today_start(run[r].snapshot_date))
    /\ run' = [run EXCEPT ![r].pc = "delete_following"]
    /\ writes' = [writes EXCEPT ![r] = @ \cup {"snapshot"}]
    /\ UNCHANGED <<now, sync_cooldown_hours, users, following_snapshot, analytics_cache,
                   sync_status, req, image_tasks, storage_faults, authVars, utilVars>>

\* analytics_service.py lines 98-103: delete today's following rows
DeleteFollowing(r) ==
    /\ run[r].pc = "delete_following"
    /\ following_snapshot' = delete_today(following_snapshot, run[r].user_id,
                                          today_start(run[r].snapshot_date))
    /\ run' = [run EXCEPT ![r] = AfterFollowers(run[r], 1)]
    /\ writes' = [writes EXCEPT ![r] = @ \cup {"snapshot"}]
    /\ UNCHANGED <<now, sync_cooldown_hours, users, followers_snapshot, analytics_cache,
                   sync_status, req, image_tasks, storage_faults, authVars, utilVars>>

\* analytics_service.py lines 106-118: one INSERT of the loop over followers
InsertFollower(r) ==
    /\ run[r].pc = "insert_follower"
    /\ followers_snapshot' = followers_snapshot \cup
          {SnapshotRow(run[r].user_id, run[r].snapshot_date, run[r].followers[run[r].i])}
    /\ run' = [run EXCEPT ![r] = AfterFollowers(run[r], run[r].i + 1)]
    /\ writes' = [writes EXCEPT ![r] = @ \cup {"snapshot"}]
    /\ UNCHANGED <<now, sync_cooldown_hours, users, following_snapshot, analytics_cache,
                   sync_status, req, image_tasks, storage_faults, authVars, utilVars>>

\* analytics_service.py lines 121-133: one INSERT of the loop over following
InsertFollowing(r) ==
    /\ run[r].pc = "insert_following"
    /\ following_snapshot' = following_snapshot \cup
          {SnapshotRow(run[r].user_id, run[r].snapshot_date, run[r].following[run[r].i])}
    /\ run' = [run EXCEPT ![r] = AfterFollowing(run[r], run[r].i + 1)]
    /\ writes' = [writes EXCEPT ![r] = @ \cup {"snapshot"}]
    /\ UNCHANGED <<now, sync_cooldown_hours, users, followers_snapshot, analytics_cache,
                   sync_status, req, image_tasks, storage_faults, authVars, utilVars>>

\* analytics_service.py lines 177-182: cache_analytics looks for the row
CacheSelect(r) ==
    /\ run[r].pc = "cache_select"
    /\ run' = [run EXCEPT ![r].pc = "cache_write",
                          ![r].existing = (run[r].user_id \in DOMAIN analytics_cache)]
    /\ UNCHANGED <<now, sync_cooldown_hours, storeVars, sync_status, req, writes,
                   image_tasks, storage_faults, authVars, utilVars>>

\* analytics_service.py lines 184-195: UPDATE the row, or INSERT it; user_id
\* is unique in analytics_cache, so an INSERT beside a row that another run
\* has inserted since the SELECT raises, and the run ends at lines 431-435
CacheWrite(r) ==
    /\ run[r].pc = "cache_write"
    /\ IF ~run[r].existing /\ run[r].user_id \in DOMAIN analytics_cache
       THEN /\ sync_status' = EndWith(sync_status, Key(r), "Error: storage")
            /\ run' = [run EXCEPT ![r] = Finished(run[r], "error")]
            /\ UNCHANGED <<analytics_cache, writes>>
       ELSE /\ analytics_cache' =
                  IF run[r].existing /\ run[r].user_id \notin DOMAIN analytics_cache
                  THEN analytics_cache
                  ELSE [u \in DOMAIN analytics_cache \cup {run[r].user_id} |->
                          IF u = run[r].user_id
                          THEN [data |-> run[r].analytics.val]
                          ELSE analytics_cache[u]]
            /\ run' = [run EXCEPT ![r].pc = "update_user"]
            /\ writes' = [writes EXCEPT ![r] = @ \cup {"cache"}]
            /\ UNCHANGED sync_status
    /\ UNCHANGED <<now, sync_cooldown_hours, users, followers_snapshot,
                   following_snapshot, req, image_tasks, storage_faults, authVars, utilVars>>

\* lines 398-416: store last_sync_at, mark the sync complete, ask for the
\* user row
UpdateUser(r) ==
    /\ run[r].pc = "update_user"
    /\ users' = [users EXCEPT ![run[r].user_id].last_sync_at = now]
    /\ sync_status' = [sync_status EXCEPT ![Key(r)] =
                          SyncStatus(FALSE, 100, "Sync complete!", now)]
    /\ run' = [run EXCEPT ![r].pc = "fetch_user", ![r].outcome = "complete",
                          ![r].wrote = <<100>>]
    /\ writes' = [writes EXCEPT ![r] = @ \cup {"last_sync"}]
    /\ UNCHANGED <<now, sync_cooldown_hours, followers_snapshot, following_snapshot,
                   analytics_cache, req, image_tasks, storage_faults, authVars, utilVars>>

\* lines 416-429: with the user row, create the image caching task
FetchUser(r) ==
    /\ run[r].pc = "fetch_user"
    /\ image_tasks' = image_tasks \cup
          {[run |-> r, followers |-> run[r].followers, following |-> run[r].following]}
    /\ run' = [run EXCEPT ![r] = Finished(run[r], run[r].outcome)]
    /\ UNCHANGED <<now, sync_cooldown_hours, storeVars, sync_status, req, writes,
                   storage_faults, authVars, utilVars>>

\* lines 431-435: a database call of the run raises
StorageRaises(r) ==
    /\ run[r].pc \in DbPcs
    /\ storage_faults < MaxStorageFaults
    /\ storage_faults' = storage_faults + 1
    /\ sync_status' = EndWith(sync_status, Key(r), "Error: storage")
    /\ run' = [run EXCEPT ![r] = Finished(run[r], IF run[r].pc = "fetch_user"
                                                   THEN "complete_then_error"
                                                   ELSE "error")]
    /\ UNCHANGED <<now, sync_cooldown_hours, storeVars, req, writes, image_tasks, authVars, utilVars>>

\* the clock.  A tick is a large part of an hour and of a day: a database call
\* of a run completes within the tick it was made in, time passes during the
\* delays and between the requests
Tick ==
    /\ now < LastTick
    /\ \A r \in Runs : run[r].pc \notin DbPcs
    /\ now' = now + 1
    /\ UNCHANGED <<syncVars, authVars, utilVars>>

(***************************************************************************)
(* Spec: sync requests and background sync runs                            *)
(***************************************************************************)
\* image_cache_service.py lines 16-23: the status before any task has run
IdleCacheStatus ==
    [is_caching |-> FALSE, total |-> 0, completed |-> 0, failed |-> 0,
     current_user |-> << >>, started_at |-> NoTime]

InitCacheIdle ==
    /\ image_cache_status = IdleCacheStatus
    /\ profile_pics = {}
    /\ cache_tasks = << >>

InitUtilIdle ==
    /\ requests = << >>
    /\ limits = << >>
    /\ checks = << >>
    /\ arguments = << >>
    /\ report = << >>
    /\ hash_seed = 0
    /\ report_again = << >>
    /\ gets = << >>
    /\ InitCacheIdle

InitAuthIdle ==
    /\ pending_challenges = << >>
    /\ logins = << >>
    /\ completions = << >>
    /\ next_uuid = 0

\* The database outlives the process.  It is empty (a new installation), or
\* it holds what two earlier syncs of each account left, one on day 0 and one
\* on day 1: their snapshot rows, the report of the later one as the code
\* computed it (with one stored date get_previous_followers gave None), and
\* its last_sync_at.
Day0Followers == <<U1>>
Day1Followers == <<U2, U1>>
PastFollowing == <<U1>>

PastRows(l0, l1) ==
    {SnapshotRow(a, 0, l0[i]) : a \in Accounts, i \in 1..Len(l0)}
    \cup {SnapshotRow(a, DayTicks, l1[i]) : a \in Accounts, i \in 1..Len(l1)}

PastReport ==
    CHOOSE rep \in compute_analytics(Day1Followers, PastFollowing, None, DayTicks) : TRUE

InitStore(past) ==
    /\ users = [a \in Accounts |-> [last_sync_at |-> IF past THEN DayTicks ELSE NoTime]]
    /\ followers_snapshot = IF past THEN PastRows(Day0Followers, Day1Followers) ELSE {}
    /\ following_snapshot = IF past THEN PastRows(PastFollowing, PastFollowing) ELSE {}
    /\ analytics_cache = IF past THEN [a \in Accounts |-> [data |-> PastReport]] ELSE << >>

Init ==
    /\ now = StartTick
    /\ sync_cooldown_hours \in 0..MaxCooldownHours
    /\ \E past \in BOOLEAN : InitStore(past)
    /\ sync_status = << >>
    /\ req = [q \in Reqs |-> IdleReq]
    /\ run = [r \in Runs |-> IdleRun]
    /\ writes = [r \in Runs |-> {}]
    /\ image_tasks = {}
    /\ storage_faults = 0
    /\ InitAuthIdle
    /\ InitUtilIdle

RunStep(r) ==
    \/ SyncStart(r)
    \/ SyncValidate(r)
    \/ PrevDates(r)
    \/ PrevRows(r)
    \/ FetchFollowing(r)
    \/ DeleteFollowers(r)
    \/ DeleteFollowing(r)
    \/ InsertFollower(r)
    \/ InsertFollowing(r)
    \/ CacheSelect(r)
    \/ CacheWrite(r)
    \/ UpdateUser(r)
    \/ FetchUser(r)
    \/ StorageRaises(r)

Next ==
    \/ \E q \in Reqs, a \in Accounts, force \in BOOLEAN : GetCurrentUser(q, a, force)
    \/ \E q \in Reqs : sync_analytics(q)
    \/ \E r \in Runs : RunStep(r)
    \/ Tick

Spec == Init /\ [][Next]_vars

\* the steps that do not move the clock
NextInTick ==
    \/ \E q \in Reqs, a \in Accounts, force \in BOOLEAN : GetCurrentUser(q, a, force)
    \/ \E q \in Reqs : sync_analytics(q)
    \/ \E r \in Runs : RunStep(r)

\* FairSpec: the requests and runs of one tick, over the database that holds
\* the two earlier days, with the cooldown disabled as config.py line 96 has
\* it.  The event loop runs every task that is ready: a started run is not
\* starved.
FairInit ==
    /\ Init
    /\ sync_cooldown_hours = 0
    /\ followers_snapshot # {}

FairSpec == FairInit /\ [][NextInTick]_vars /\ \A r \in Runs : WF_vars(RunStep(r))

(***************************************************************************)
(* TailSpec: the same program, observed from the moment a sync of the      *)
(* account has just marked itself complete and is waiting, at line 416,    *)
(* for the user row.  That sync is task 0; it ran on the day the behaviour *)
(* starts, over the two earlier days of snapshots.                         *)
(***************************************************************************)
TailReport ==
    CHOOSE rep \in compute_analytics(Day1Followers, PastFollowing,
                                     Some(Day0Followers), StartTick) : TRUE

TailRows(l) ==
    {SnapshotRow(a, StartTick, l[i]) : a \in Accounts, i \in 1..Len(l)}

TailRun(a) ==
    [IdleRun EXCEPT !.pc = "fetch_user", !.user_id = a, !.outcome = "complete",
                    !.previous_followers = Some(Day0Followers), !.prev_date = 0,
                    !.followers = Day1Followers, !.following = PastFollowing,
                    !.followers_fetch = [kind |-> "ok", mentions_400 |-> FALSE],
                    !.following_fetch = [kind |-> "ok", mentions_400 |-> FALSE],
                    !.analytics = Some(TailReport), !.snapshot_date = StartTick,
                    !.existing = TRUE, !.wrote = <<100>>]

InitTail ==
    /\ now = StartTick
    /\ sync_cooldown_hours = 0
    /\ users = [a \in Accounts |-> [last_sync_at |-> StartTick]]
    /\ followers_snapshot = PastRows(Day0Followers, Day1Followers) \cup TailRows(Day1Followers)
    /\ following_snapshot = PastRows(PastFollowing, PastFollowing) \cup TailRows(PastFollowing)
    /\ analytics_cache = [a \in Accounts |-> [data |-> TailReport]]
    /\ sync_status = [k \in {status_key_of(1)} |->
                         SyncStatus(FALSE, 100, "Sync complete!", StartTick)]
    /\ req = [q \in Reqs |-> IdleReq]
    /\ run = [r \in Runs |-> IF r = 0 THEN TailRun(1) ELSE IdleRun]
    /\ writes = [r \in Runs |-> IF r = 0 THEN {"snapshot", "cache", "last_sync"} ELSE {}]
    /\ image_tasks = {}
    /\ storage_faults = 0
    /\ InitAuthIdle
    /\ InitUtilIdle

\* the steps taken within the tick of that completion
TailSpec == InitTail /\ [][NextInTick]_vars

(***************************************************************************)
(* OverlapSpec: two runs of one account under way at once.  It starts in a *)
(* state TailSpec reaches: the database call of task 0 has raised and its  *)
(* handler has cleared is_syncing between the handlers of the two          *)
(* requests, both have been accepted, run 1 has fetched both lists and     *)
(* enters save_snapshot, run 2 has fetched the followers.  The clock is    *)
(* finer here: datetime.utcnow() counts microseconds, so time passes also  *)
(* while a database call of a run is in flight.  No further database call  *)
(* raises.                                                                 *)
(***************************************************************************)
MaxLateTicks == 1

Accepted == SyncStatus(TRUE, 0, "Starting sync...", NoTime)

TailStore ==
    <<[a \in Accounts |-> [last_sync_at |-> StartTick]],
      PastRows(Day0Followers, Day1Followers) \cup TailRows(Day1Followers),
      PastRows(PastFollowing, PastFollowing) \cup TailRows(PastFollowing),
      [a \in Accounts |-> [data |-> TailReport]]>>

\* run 2: at the delay before its following fetch
OverlapFetched(a) ==
    [IdleRun EXCEPT !.pc = "delay2", !.user_id = a,
                    !.previous_followers = Some(Day1Followers), !.prev_date = 1,
                    !.followers = Day0Followers,
                    !.followers_fetch = [kind |-> "ok", mentions_400 |-> FALSE],
                    !.before = TailStore, !.wrote = <<20, 45, 45>>]

\* run 1: at the first DELETE of save_snapshot
OverlapSaving(a) ==
    [OverlapFetched(a) EXCEPT
        !.pc = "delete_followers",
        !.following = PastFollowing,
        !.following_fetch = [kind |-> "ok", mentions_400 |-> FALSE],
        !.analytics = Some(CHOOSE rep \in compute_analytics(Day0Followers, PastFollowing,
                                                            Some(Day1Followers),
                                                            StartTick) : TRUE),
        !.snapshot_date = StartTick,
        !.wrote = <<50, 75, 75, 85, 90>>]

InitOverlap ==
    /\ now = StartTick
    /\ sync_cooldown_hours = 0
    /\ users = TailStore[1]
    /\ followers_snapshot = TailStore[2]
    /\ following_snapshot = TailStore[3]
    /\ analytics_cache = TailStore[4]
    /\ sync_status = [k \in {status_key_of(1)} |->
                         SyncStatus(TRUE, 90, "Saving data...", NoTime)]
    /\ req = [q \in Reqs |->
                [IdleReq EXCEPT !.pc = "done", !.user_id = 1,
                                !.response = [success |-> TRUE, message |-> "Sync started",
                                              status |-> Accepted]]]
    /\ run = [r \in Runs |->
                IF r = 0 THEN Finished(TailRun(1), "complete_then_error")
                ELSE IF r = 1 THEN OverlapSaving(1)
                ELSE OverlapFetched(1)]
    /\ writes = [r \in Runs |-> IF r = 0 THEN {"snapshot", "cache", "last_sync"} ELSE {}]
    /\ image_tasks = {}
    /\ storage_faults = MaxStorageFaults
    /\ InitAuthIdle
    /\ InitUtilIdle

\* the clock moves while a run waits for the database
LateTick ==
    /\ now < StartTick + MaxLateTicks
    /\ \E r \in Runs : run[r].pc \in DbPcs
    /\ now' = now + 1
    /\ UNCHANGED <<syncVars, authVars, utilVars>>

OverlapStep(r) ==
    \/ FetchFollowing(r)
    \/ DeleteFollowers(r)
    \/ DeleteFollowing(r)
    \/ InsertFollower(r)
    \/ InsertFollowing(r)
    \/ CacheSelect(r)
    \/ CacheWrite(r)
    \/ UpdateUser(r)
    \/ FetchUser(r)

OverlapNext ==
    \/ \E r \in Runs : OverlapStep(r)
    \/ LateTick

OverlapSpec == InitOverlap /\ [][OverlapNext]_vars

(***************************************************************************)
(* instagram_service.py: the challenge table and the login state machine.  *)
(* Under AuthSpec the clock counts minutes.                                *)
(***************************************************************************)
\* line 32
CHALLENGE_EXPIRY_MINUTES == 10

MaxLogins == 2         \* calls of login
MaxCompletions == 2    \* calls of complete_2fa / complete_challenge
TickMinutes == 5       \* minutes between two readings of the clock
MaxAuthTicks == 3      \* readings of the clock after the first

LoginSlots == 1..MaxLogins
CompletionSlots == 1..MaxCompletions
Usernames == {"alice", "bob"}
\* the session ids a caller can present: the ones uuid4 has produced or will
\* produce, and one that login never produced
NeverIssued == 0
SessionIds == {NeverIssued} \cup (1..MaxLogins)

\* an eviction that empties the table.  C15 fails of it.
cleanup_drops_all(table, t) ==
    [session_id \in {} |-> table[session_id]]

\* an eviction that also drops the entries whose age equals the threshold.
\* C16 fails of it.
cleanup_at_threshold(table, t) ==
    [session_id \in {k \in DOMAIN table :
                        ~(t - table[k].created_at >= CHALLENGE_EXPIRY_MINUTES)}
        |-> table[session_id]]

\* lines 35-46: the entries that are not older than the threshold stay
cleanup_expired_challenges(table, t) ==
    [session_id \in {k \in DOMAIN table :
                        ~(t - table[k].created_at > CHALLENGE_EXPIRY_MINUTES)}
        |-> table[session_id]]

\* an entry that is stored as "2fa" whatever was asked for.  C14 fails of it.
Challenge_always_2fa(type, username, t) ==
    [type |-> "2fa", username |-> username, created_at |-> t]

\* lines 198-204 and 214-220: pending_challenges[session_id] = {...}
Challenge(type, username, t) ==
    [type |-> type, username |-> username, created_at |-> t]

WithChallenge(table, session_id, entry) ==
    [k \in DOMAIN table \cup {session_id} |->
        IF k = session_id THEN entry ELSE table[k]]

\* a del that removes nothing.  C13 fails of it.
WithoutChallenge_keeps(table, session_id) ==
    table

\* del pending_challenges[session_id]
WithoutChallenge(table, session_id) ==
    [k \in DOMAIN table \ {session_id} |-> table[k]]

\* what a call of the service returns
Returned(success, outcome, error, session_id, tagged) ==
    [success |-> success, outcome |-> outcome, error |-> error,
     session_id |-> session_id, tagged |-> tagged]

Failure(error) == Returned(FALSE, "failure", error, NeverIssued, "")
Authenticated(session_id, username) ==
    Returned(TRUE, "authenticated", "", session_id, username)

IdleLogin == [pc |-> "idle", username |-> "", session_id |-> NeverIssued,
              response |-> Failure("none")]

\* info is history: what client.user_info did after the delay
IdleCompletion == [pc |-> "idle", op |-> "none", session_id |-> NeverIssued,
                   username |-> "", contacted |-> FALSE, info |-> "none",
                   response |-> Failure("none")]

\* what client.login does in login
LoginResults == {"ok", "TwoFactorRequired", "ChallengeRequired", "ChallengeSendFails",
                 "BadPassword", "PleaseWaitFewMinutes", "ClientError", "Exception"}

\* lines 205-257: the except clauses of login, which cover the whole try
\* block: the call of client.login before the delay and the call of
\* client.user_info after it
login_except(l, table, session_id, username, result) ==
    LET done(resp) == [logins EXCEPT ![l] = [pc |-> "done", username |-> username,
                                             session_id |-> session_id,
                                             response |-> resp]]
    IN  IF result = "TwoFactorRequired"
        THEN /\ pending_challenges' =
                   WithChallenge(table, session_id, Challenge("2fa", username, now))
             /\ logins' = done(Returned(FALSE, "requires_2fa", "", session_id, ""))
        ELSE IF result = "ChallengeRequired"
        THEN /\ pending_challenges' =
                   WithChallenge(table, session_id, Challenge("challenge", username, now))
             /\ logins' = done(Returned(FALSE, "requires_challenge", "", session_id, ""))
        ELSE /\ pending_challenges' = table
             /\ logins' = done(Failure(
                   IF result = "ChallengeSendFails" THEN "Challenge failed"
                   ELSE IF result = "BadPassword" THEN "Invalid password"
                   ELSE IF result = "PleaseWaitFewMinutes"
                        THEN "Rate limited. Please wait a few minutes."
                   ELSE IF result = "ClientError" THEN "Instagram error"
                   ELSE "Login failed"))

\* lines 181-193: login up to its first await, or to its return
login(l, username, result) ==
    /\ logins[l].pc = "idle"
    /\ \A k \in LoginSlots : k < l => logins[k].pc # "idle"
    /\ LET table == cleanup_expired_challenges(pending_challenges, now)
           session_id == next_uuid + 1
       IN  /\ next_uuid' = session_id
           /\ IF result = "ok"
              THEN /\ pending_challenges' = table
                   /\ logins' = [logins EXCEPT ![l] = [pc |-> "delay", username |-> username,
                                                       session_id |-> session_id,
                                                       response |-> Failure("none")]]
              ELSE login_except(l, table, session_id, username, result)
    /\ UNCHANGED <<now, syncVars, utilVars, completions>>

\* lines 194-204: after the delay, user_info and the session blob; what
\* user_info raises is caught by the except clauses of login
login_after_delay(l, result) ==
    /\ logins[l].pc = "delay"
    /\ IF result = "ok"
       THEN /\ logins' = [logins EXCEPT ![l].pc = "done",
                                        ![l].response =
                                           Authenticated(logins[l].session_id,
                                                         logins[l].username)]
            /\ pending_challenges' = pending_challenges
       ELSE login_except(l, pending_challenges, logins[l].session_id,
                         logins[l].username, result)
    /\ UNCHANGED <<now, syncVars, utilVars, completions, next_uuid>>

\* the guard without its second check.  C12 fails of it.
completion_guard_no_type_check(table, session_id, type) ==
    IF session_id \notin DOMAIN table THEN "Session expired." ELSE ""

\* the two checks merged into one: an absent session id is answered like a
\* challenge of the other type.  C9 fails of it.
completion_guard_merged(table, session_id, type) ==
    IF session_id \notin DOMAIN table \/ table[session_id].type # type
    THEN "Invalid challenge type"
    ELSE ""

\* lines 275-280 and 305-310: the two checks a completion makes before it
\* touches the client; "" when it goes on
completion_guard(table, session_id, type) ==
    IF session_id \notin DOMAIN table THEN "Session expired."
    ELSE IF table[session_id].type # type THEN "Invalid challenge type"
    ELSE ""

\* a completion that has returned
CompletionDone(rec, contacted, resp) ==
    [rec EXCEPT !.pc = "done", !.contacted = contacted, !.response = resp]

\* lines 273-286: complete_2fa up to its await; result is what client.login
\* with the verification code does
complete_2fa(c, session_id, username, result) ==
    /\ completions[c].pc = "idle"
    /\ \A k \in CompletionSlots : k < c => completions[k].pc # "idle"
    /\ LET error == completion_guard(pending_challenges, session_id, "2fa")
           rec == [IdleCompletion EXCEPT !.op = "2fa", !.session_id = session_id,
                                         !.username = username]
       IN  completions' = [completions EXCEPT ![c] =
              IF error # "" THEN CompletionDone(rec, FALSE, Failure(error))
              ELSE IF result = "raises" THEN CompletionDone(rec, TRUE, Failure("2FA failed"))
              ELSE [rec EXCEPT !.pc = "delay", !.contacted = TRUE]]
    /\ UNCHANGED <<now, syncVars, utilVars, pending_challenges, logins, next_uuid>>

\* lines 303-319: complete_challenge up to its await; result is what
\* client.challenge_resolve returns or does
complete_challenge(c, session_id, result) ==
    /\ completions[c].pc = "idle"
    /\ \A k \in CompletionSlots : k < c => completions[k].pc # "idle"
    /\ LET error == completion_guard(pending_challenges, session_id, "challenge")
           rec == [IdleCompletion EXCEPT !.op = "challenge", !.session_id = session_id,
                      !.username = IF error = "" THEN pending_challenges[session_id].username
                                   ELSE ""]
       IN  completions' = [completions EXCEPT ![c] =
              IF error # "" THEN CompletionDone(rec, FALSE, Failure(error))
              ELSE IF result = "raises"
                   THEN CompletionDone(rec, TRUE, Failure("Challenge failed"))
              ELSE IF result = "falsy"
                   THEN CompletionDone(rec, TRUE, Failure("Challenge failed."))
              ELSE [rec EXCEPT !.pc = "delay", !.contacted = TRUE]]
    /\ UNCHANGED <<now, syncVars, utilVars, pending_challenges, logins, next_uuid>>

\* the del replaced by pending_challenges.pop(session_id, None): a completion
\* whose challenge is gone authenticates all the same.  C36 fails of it.
completion_after_delay_pop(c, info_ok) ==
    /\ completions[c].pc = "delay"
    /\ LET session_id == completions[c].session_id
           rec == [completions[c] EXCEPT !.info = IF info_ok THEN "ok" ELSE "raises"]
           failed == Failure(IF completions[c].op = "2fa" THEN "2FA failed"
                             ELSE "Challenge failed")
       IN  IF info_ok
           THEN /\ pending_challenges' = WithoutChallenge(pending_challenges, session_id)
                /\ completions' = [completions EXCEPT ![c] =
                      CompletionDone(rec, TRUE,
                                     Authenticated(session_id, completions[c].username))]
           ELSE /\ pending_challenges' = pending_challenges
                /\ completions' = [completions EXCEPT ![c] =
                      CompletionDone(rec, TRUE, failed)]
    /\ UNCHANGED <<now, syncVars, utilVars, logins, next_uuid>>

\* lines 287-301 and 320-336: after the delay, user_info, the session blob
\* tagged with the username, del pending_challenges[session_id], the return;
\* whatever raises on the way, the KeyError of the del included, is caught
completion_after_delay(c, info_ok) ==
    /\ completions[c].pc = "delay"
    /\ LET session_id == completions[c].session_id
           rec == [completions[c] EXCEPT !.info = IF info_ok THEN "ok" ELSE "raises"]
           failed == Failure(IF completions[c].op = "2fa" THEN "2FA failed"
                             ELSE "Challenge failed")
       IN  IF info_ok /\ session_id \in DOMAIN pending_challenges
           THEN /\ pending_challenges' = WithoutChallenge(pending_challenges, session_id)
                /\ completions' = [completions EXCEPT ![c] =
                      CompletionDone(rec, TRUE,
                                     Authenticated(session_id, completions[c].username))]
           ELSE /\ pending_challenges' = pending_challenges
                /\ completions' = [completions EXCEPT ![c] =
                      CompletionDone(rec, TRUE, failed)]
    /\ UNCHANGED <<now, syncVars, utilVars, logins, next_uuid>>

\* the clock of AuthSpec
AuthTick ==
    /\ now + TickMinutes <= MaxAuthTicks * TickMinutes
    /\ now' = now + TickMinutes
    /\ UNCHANGED <<syncVars, authVars, utilVars>>

(***************************************************************************)
(* AuthSpec: logins and completions over the challenge table               *)
(***************************************************************************)
InitAuth ==
    /\ now = 0
    /\ sync_cooldown_hours = 0
    /\ users = << >>
    /\ followers_snapshot = {}
    /\ following_snapshot = {}
    /\ analytics_cache = << >>
    /\ sync_status = << >>
    /\ req = << >>
    /\ run = << >>
    /\ writes = << >>
    /\ image_tasks = {}
    /\ storage_faults = 0
    /\ pending_challenges = << >>
    /\ logins = [l \in LoginSlots |-> IdleLogin]
    /\ completions = [c \in CompletionSlots |-> IdleCompletion]
    /\ next_uuid = 0
    /\ InitUtilIdle

AuthNext ==
    \/ \E l \in LoginSlots, username \in Usernames, result \in LoginResults :
          login(l, username, result)
    \/ \E l \in LoginSlots, result \in LoginResults : login_after_delay(l, result)
    \/ \E c \in CompletionSlots, session_id \in SessionIds, username \in Usernames,
          result \in {"ok", "raises"} : complete_2fa(c, session_id, username, result)
    \/ \E c \in CompletionSlots, session_id \in SessionIds,
          result \in {"truthy", "falsy", "raises"} : complete_challenge(c, session_id, result)
    \/ \E c \in CompletionSlots, info_ok \in BOOLEAN : completion_after_delay(c, info_ok)
    \/ AuthTick

AuthSpec == InitAuth /\ [][AuthNext]_vars

(***************************************************************************)
(* rate_limiter.py: RateLimiter.  Under RateSpec the clock `now` counts    *)
(* ticks of 1/SecondTicks second.  The body of check_rate_limit runs under *)
(* self.lock and has no await: a free asyncio.Lock is taken without        *)
(* suspending, so a call is one stretch of code from its first line to its *)
(* return, and the calls of concurrent requests run one after the other    *)
(* in any order.                                                           *)
(***************************************************************************)
\* how many check_rate_limit calls are made
MaxChecks == 4
\* the largest max_requests and window_seconds tried (from 0 on)
MaxRequests == 2
MaxWindowSeconds == 2
\* the clock stops after MaxRateNow ticks
MaxRateNow == 5

CheckSlots == 1..MaxChecks
Identifiers == {"ip1", "ip2"}

\* timedelta(seconds=window_seconds)
window(window_seconds) == window_seconds * SecondTicks

\* one entry of a log: (timestamp, count)
Entry(timestamp, count) == [timestamp |-> timestamp, count |-> count]

\* self.requests[identifier] of a defaultdict(list)
LogOf(table, identifier) ==
    IF identifier \in DOMAIN table THEN table[identifier] ELSE << >>

\* lines 28-34: the entries newer than window_start
retained(log, t, window_seconds) ==
    SelectSeq(log, LAMBDA e : e.timestamp > t - window(window_seconds))

\* line 37: sum(count for _, count in self.requests[identifier])
RECURSIVE total_requests(_)
total_requests(log) ==
    IF log = << >> THEN 0 ELSE Head(log).count + total_requests(Tail(log))

\* a limit that is reached one request late.  C18 fails of it.
at_limit_exclusive(total, max_requests) == total > max_requests

\* line 39: total_requests >= max_requests
at_limit(total, max_requests) == total >= max_requests

\* line 40: int((self.requests[identifier][0][0] + timedelta(seconds=
\* window_seconds) - now).total_seconds()); int() truncates
retry_after(log, t, window_seconds) ==
    (log[1].timestamp + window(window_seconds) - t) \div SecondTicks

\* the retry_after of a call that raised no HTTPException
NoRetry == -1

\* lines 26-49: the body of check_rate_limit on the log of its identifier:
\* what the call ends with, and the log it leaves
check_rate_limit_body(log, t, max_requests, window_seconds) ==
    LET kept == retained(log, t, window_seconds)
    IN  IF at_limit(total_requests(kept), max_requests)
        THEN IF kept = << >>
             \* line 40 indexes an empty list
             THEN [outcome |-> "IndexError", retry_after |-> NoRetry, log |-> kept]
             ELSE [outcome |-> "RateLimited",
                   retry_after |-> retry_after(kept, t, window_seconds),
                   log |-> kept]
        ELSE [outcome |-> "allowed", retry_after |-> NoRetry,
              log |-> Append(kept, Entry(t, 1))]

IdleCheck == [pc |-> "idle", identifier |-> "", at |-> NoTime,
              outcome |-> "none", retry_after |-> NoRetry]

\* lines 16-49: one check_rate_limit call
check_rate_limit(c, identifier) ==
    /\ checks[c].pc = "idle"
    /\ \A k \in CheckSlots : k < c => checks[k].pc # "idle"
    /\ LET d == check_rate_limit_body(LogOf(requests, identifier), now,
                                      limits.max_requests, limits.window_seconds)
       IN  /\ requests' = [i \in DOMAIN requests \cup {identifier} |->
                              IF i = identifier THEN d.log ELSE requests[i]]
           /\ checks' = [checks EXCEPT ![c] =
                            [pc |-> "done", identifier |-> identifier, at |-> now,
                             outcome |-> d.outcome, retry_after |-> d.retry_after]]
    /\ UNCHANGED <<now, limits, syncVars, authVars, computeVars, readVars, cacheVars>>

\* time passes between two calls
RateTick ==
    /\ now < MaxRateNow
    /\ now' = now + 1
    /\ UNCHANGED <<syncVars, authVars, utilVars>>

InitSyncIdle ==
    /\ sync_cooldown_hours = 0
    /\ users = << >>
    /\ followers_snapshot = {}
    /\ following_snapshot = {}
    /\ analytics_cache = << >>
    /\ sync_status = << >>
    /\ req = << >>
    /\ run = << >>
    /\ writes = << >>
    /\ image_tasks = {}
    /\ storage_faults = 0

InitRate ==
    /\ now = 0
    /\ InitSyncIdle
    /\ InitAuthIdle
    /\ requests = << >>
    /\ limits \in [max_requests : 0..MaxRequests, window_seconds : 0..MaxWindowSeconds]
    /\ checks = [c \in CheckSlots |-> IdleCheck]
    /\ arguments = << >>
    /\ report = << >>
    /\ hash_seed = 0
    /\ report_again = << >>
    /\ gets = << >>
    /\ InitCacheIdle

RateNext ==
    \/ \E c \in CheckSlots, identifier \in Identifiers : check_rate_limit(c, identifier)
    \/ RateTick

RateSpec == InitRate /\ [][RateNext]_vars

(***************************************************************************)
(* analytics_service.py: compute_analytics as a function of its arguments. *)
(* ComputeSpec draws the three arguments from the lists over a small set   *)
(* of users, lists that repeat an id and lists that give one id two        *)
(* usernames included, and makes the call.                                 *)
(***************************************************************************)
\* the ids and the length of the lists tried
MaxIds == 3
MaxListLen == 2

\* "a" and "B": the code points order them one way, the lowered keys the other
Names == {<<97>>, <<66>>}
Entities == {InstagramUser(id, name) : id \in 1..MaxIds, name \in Names}
Lists == UNION {[1..n -> Entities] : n \in 0..MaxListLen}

\* the hash seeds a process may start with: the ids are str, and the order
\* in which a set of str is enumerated is fixed by the seed of the process
HashSeeds == {0, 1}

NoReport == [returned |-> FALSE, seed |-> 0, value |-> << >>]

\* the lists of two reports are the same, entity by entity
SameLists(r1, r2) ==
    [r1 EXCEPT !.overview = << >>] = [r2 EXCEPT !.overview = << >>]

\* lines 14-78: the call
Compute ==
    /\ ~report.returned
    /\ \E r \in compute_analytics(arguments.followers, arguments.following,
                                  arguments.previous_followers, now) :
          report' = [returned |-> TRUE, seed |-> hash_seed, value |-> r]
    /\ UNCHANGED <<now, arguments, hash_seed, report_again, syncVars, authVars,
                   limiterVars, readVars, cacheVars>>

\* the server is restarted: the new process draws its hash seed
Restart ==
    /\ report.returned
    /\ ~report_again.returned
    /\ \E seed \in HashSeeds : hash_seed' = seed
    /\ UNCHANGED <<now, arguments, report, report_again, syncVars, authVars,
                   limiterVars, readVars, cacheVars>>

\* lines 14-78: a later call with the same arguments.  Under the seed of the
\* first call every set is enumerated as it was then.
ComputeAgain ==
    /\ report.returned
    /\ ~report_again.returned
    /\ \E r \in compute_analytics(arguments.followers, arguments.following,
                                  arguments.previous_followers, now + 1) :
          /\ hash_seed = report.seed => SameLists(r, report.value)
          /\ report_again' = [returned |-> TRUE, seed |-> hash_seed, value |-> r]
    /\ UNCHANGED <<now, arguments, report, hash_seed, syncVars, authVars,
                   limiterVars, readVars, cacheVars>>

InitCompute ==
    /\ now = 0
    /\ InitSyncIdle
    /\ InitAuthIdle
    /\ requests = << >>
    /\ limits = << >>
    /\ checks = << >>
    /\ arguments \in [followers : Lists, following : Lists,
                      previous_followers : {None} \cup {Some(l) : l \in Lists}]
    /\ report = NoReport
    /\ hash_seed \in HashSeeds
    /\ report_again = NoReport
    /\ gets = << >>
    /\ InitCacheIdle

ComputeNext ==
    \/ Compute
    \/ Restart
    \/ ComputeAgain

ComputeSpec == InitCompute /\ [][ComputeNext]_vars

(***************************************************************************)
(* routes/analytics.py: can_sync as a function of the stored last_sync_at, *)
(* the clock and the cooldown setting.  CooldownSpec draws the three and   *)
(* makes the call.                                                         *)
(***************************************************************************)
\* lines 33-53: the call, on the last_sync of the user row
CanSync ==
    /\ ~report.returned
    /\ report' = [returned |-> TRUE, seed |-> hash_seed,
                  value |-> can_sync(arguments.last_sync, now, sync_cooldown_hours)]
    /\ UNCHANGED <<now, sync_cooldown_hours, storeVars, sync_status, req, run, writes,
                   image_tasks, storage_faults, authVars, limiterVars, arguments,
                   hash_seed, report_again, readVars, cacheVars>>

InitCooldown ==
    /\ now \in 0..LastTick
    /\ sync_cooldown_hours \in 0..MaxCooldownHours
    /\ users = << >>
    /\ followers_snapshot = {}
    /\ following_snapshot = {}
    /\ analytics_cache = << >>
    /\ sync_status = << >>
    /\ req = << >>
    /\ run = << >>
    /\ writes = << >>
    /\ image_tasks = {}
    /\ storage_faults = 0
    /\ InitAuthIdle
    /\ requests = << >>
    /\ limits = << >>
    /\ checks = << >>
    /\ arguments \in [last_sync : {NoTime} \cup (0..LastTick)]
    /\ report = NoReport
    /\ hash_seed = 0
    /\ report_again = NoReport
    /\ gets = << >>
    /\ InitCacheIdle

CooldownNext == CanSync

CooldownSpec == InitCooldown /\ [][CooldownNext]_vars

(***************************************************************************)
(* routes/analytics.py: the GET endpoints.  ReadSpec runs them over a      *)
(* database that is empty or holds two earlier syncs, with no sync in      *)
(* flight.                                                                 *)
(***************************************************************************)
\* number of GET requests
MaxGets == 2
\* the largest offset tried for the paged lists
MaxOffset == 1

Gets == 1..MaxGets
\* the limit query parameter: a small one and the default of the handlers
PageLimits == {1, 50}
Offsets == 0..MaxOffset

\* the endpoints that depend on get_current_user
AuthedEndpoints == {"overview", "detailed", "not-following-back", "not-followed-back",
                    "mutual", "new-followers", "lost-followers", "can-sync",
                    "sync/status", "profile"}

NoReply == [status_code |-> 0, body |-> << >>]
Ok(body) == [status_code |-> 200, body |-> body]
HTTPException(status_code, detail) == [status_code |-> status_code, body |-> detail]

IdleGet == [pc |-> "idle", endpoint |-> "none", user_id |-> 0, last_sync |-> NoTime,
            response |-> NoReply, remote_calls |-> 0]

\* analytics_service.py lines 197-205: the report of the cache row, or None
get_cached_analytics(user_id) ==
    IF user_id \in DOMAIN analytics_cache THEN Some(analytics_cache[user_id].data)
    ELSE None

\* l[offset : offset + limit], offset and limit not negative
Slice(l, offset, limit) ==
    [i \in 1..(IF Len(l) - offset < limit
               THEN (IF Len(l) < offset THEN 0 ELSE Len(l) - offset)
               ELSE limit) |-> l[offset + i]]

\* routes/analytics.py lines 82-101: the report of an account never synced
EmptyAnalytics ==
    [overview |-> [total_followers |-> 0, total_following |-> 0,
                   not_following_back |-> 0, not_followed_back |-> 0,
                   mutual_friends |-> 0, new_followers |-> 0, lost_followers |-> 0,
                   last_sync |-> NoTime],
     followers |-> << >>, following |-> << >>, not_following_back |-> << >>,
     not_followed_back |-> << >>, mutual_friends |-> << >>,
     new_followers |-> << >>, lost_followers |-> << >>]

\* round(n / d), half to even
RoundDiv(n, d) ==
    LET q == n \div d
        r == n % d
    IN  IF 2 * r < d THEN q
        ELSE IF 2 * r > d THEN q + 1
        ELSE IF q % 2 = 0 THEN q ELSE q + 1

\* line 186: round(seconds_remaining / 3600, 1) if seconds_remaining else
\* None, in tenths of an hour
hours_until_next_sync(seconds_remaining) ==
    IF seconds_remaining = NoTime \/ seconds_remaining = 0 THEN NoTime
    ELSE RoundDiv(seconds_remaining * 10 * SecondTicks, HourTicks)

\* the handler returns: the response of request g
Reply(g, response) ==
    /\ gets' = [gets EXCEPT ![g].pc = "done", ![g].response = response]
    /\ UNCHANGED <<now, syncVars, authVars, limiterVars, computeVars, cacheVars>>

\* the handler of endpoint is about to run for request g
Handling(g, endpoint) == gets[g].pc = "authed" /\ gets[g].endpoint = endpoint

\* auth.py lines 34-63, get_current_user: the dependency reads the user row;
\* the handler runs later with that row
get_current_user(g, endpoint, a) ==
    /\ gets[g].pc = "idle"
    /\ gets' = [gets EXCEPT ![g] = [IdleGet EXCEPT !.pc = "authed",
                                                   !.endpoint = endpoint,
                                                   !.user_id = a,
                                                   !.last_sync = users[a].last_sync_at]]
    /\ UNCHANGED <<now, syncVars, authVars, limiterVars, computeVars, cacheVars>>

\* lines 56-70
get_analytics_overview(g) ==
    /\ Handling(g, "overview")
    /\ LET cached == get_cached_analytics(gets[g].user_id)
       IN  Reply(g, IF cached.some THEN Ok(cached.val.overview)
                    ELSE HTTPException(404, "No analytics data available"))

\* lines 73-102
get_detailed_analytics(g) ==
    /\ Handling(g, "detailed")
    /\ LET cached == get_cached_analytics(gets[g].user_id)
       IN  Reply(g, IF cached.some THEN Ok(cached.val) ELSE Ok(EmptyAnalytics))

\* lines 105-118
get_not_following_back(g, limit, offset) ==
    /\ Handling(g, "not-following-back")
    /\ LET cached == get_cached_analytics(gets[g].user_id)
       IN  Reply(g, IF cached.some
                    THEN Ok(Slice(cached.val.not_following_back, offset, limit))
                    ELSE HTTPException(404, "Please sync your account first."))

\* lines 121-134
get_not_followed_back(g, limit, offset) ==
    /\ Handling(g, "not-followed-back")
    /\ LET cached == get_cached_analytics(gets[g].user_id)
       IN  Reply(g, IF cached.some
                    THEN Ok(Slice(cached.val.not_followed_back, offset, limit))
                    ELSE HTTPException(404, "Please sync your account first."))

\* lines 137-150
get_mutual_friends(g, limit, offset) ==
    /\ Handling(g, "mutual")
    /\ LET cached == get_cached_analytics(gets[g].user_id)
       IN  Reply(g, IF cached.some
                    THEN Ok(Slice(cached.val.mutual_friends, offset, limit))
                    ELSE HTTPException(404, "Please sync your account first."))

\* lines 153-162
get_new_followers(g) ==
    /\ Handling(g, "new-followers")
    /\ LET cached == get_cached_analytics(gets[g].user_id)
       IN  Reply(g, IF cached.some THEN Ok(cached.val.new_followers)
                    ELSE HTTPException(404, "Please sync your account first."))

\* lines 165-174
get_lost_followers(g) ==
    /\ Handling(g, "lost-followers")
    /\ LET cached == get_cached_analytics(gets[g].user_id)
       IN  Reply(g, IF cached.some THEN Ok(cached.val.lost_followers)
                    ELSE HTTPException(404, "Please sync your account first."))

\* lines 177-189
check_can_sync(g) ==
    /\ Handling(g, "can-sync")
    /\ LET check == can_sync(gets[g].last_sync, now, sync_cooldown_hours)
       IN  Reply(g, Ok([can_sync |-> check.allowed,
                        seconds_until_next_sync |-> check.seconds_remaining,
                        hours_until_next_sync |->
                           hours_until_next_sync(check.seconds_remaining),
                        last_sync |-> gets[g].last_sync,
                        cooldown_hours |-> sync_cooldown_hours]))

\* lines 253-268
get_sync_status(g) ==
    /\ Handling(g, "sync/status")
    /\ LET status_key == status_key_of(gets[g].user_id)
       IN  Reply(g, IF status_key \in DOMAIN sync_status
                    THEN Ok(sync_status[status_key])
                    ELSE Ok(SyncStatus(FALSE, 100, "Idle", gets[g].last_sync)))

\* lines 438-450: load_session (instagram_service.py lines 338-351) restores
\* the client or fails; get_user_info (lines 484-490) asks the remote
\* platform for the profile, which answers or raises
get_profile(g, loaded, answered) ==
    /\ Handling(g, "profile")
    /\ IF ~loaded
       THEN Reply(g, HTTPException(401, "Session expired. Please login again."))
       ELSE /\ gets' = [gets EXCEPT ![g].pc = "done",
                                    ![g].remote_calls = @ + 1,
                                    ![g].response =
                                       IF answered THEN Ok("UserProfile")
                                       ELSE HTTPException(500, "Internal Server Error")]
            /\ UNCHANGED <<now, syncVars, authVars, limiterVars, computeVars, cacheVars>>

\* lines 453-467; has_cached_pic (image_cache_service.py lines 36-38) says
\* whether the file exists
get_profile_pic(g, cached) ==
    /\ gets[g].pc = "idle"
    /\ gets' = [gets EXCEPT ![g].pc = "done", ![g].endpoint = "profile-pic",
                            ![g].response =
                               IF cached THEN Ok("FileResponse")
                               ELSE HTTPException(404, "Profile picture not cached")]
    /\ UNCHANGED <<now, syncVars, authVars, limiterVars, computeVars, cacheVars>>

\* lines 470-473; get_cache_status (image_cache_service.py lines 191-193)
\* copies the status of the image caching
get_image_cache_status(g, is_caching) ==
    /\ gets[g].pc = "idle"
    /\ gets' = [gets EXCEPT ![g].pc = "done", ![g].endpoint = "image-cache/status",
                            ![g].response = Ok([is_caching |-> is_caching])]
    /\ UNCHANGED <<now, syncVars, authVars, limiterVars, computeVars, cacheVars>>

\* lines 476-479
check_has_cached_pic(g, cached) ==
    /\ gets[g].pc = "idle"
    /\ gets' = [gets EXCEPT ![g].pc = "done", ![g].endpoint = "has-cached-pic",
                            ![g].response = Ok([has_cached_pic |-> cached])]
    /\ UNCHANGED <<now, syncVars, authVars, limiterVars, computeVars, cacheVars>>

\* the status registry of a process that has served no sync, or one whose
\* sync of the account has just been accepted
ReadStatuses ==
    {<< >>}
    \cup {[k \in {status_key_of(a)} |-> SyncStatus(TRUE, 0, "Starting sync...", NoTime)] :
            a \in Accounts}

InitRead ==
    /\ now \in (DayTicks + 1)..StartTick
    /\ sync_cooldown_hours \in 0..MaxCooldownHours
    /\ \E past \in BOOLEAN : InitStore(past)
    /\ sync_status \in ReadStatuses
    /\ req = [q \in Reqs |-> IdleReq]
    /\ run = [r \in Runs |-> IdleRun]
    /\ writes = [r \in Runs |-> {}]
    /\ image_tasks = {}
    /\ storage_faults = 0
    /\ InitAuthIdle
    /\ requests = << >>
    /\ limits = << >>
    /\ checks = << >>
    /\ arguments = << >>
    /\ report = << >>
    /\ hash_seed = 0
    /\ report_again = << >>
    /\ gets = [g \in Gets |-> IdleGet]
    /\ InitCacheIdle

ReadNext ==
    \E g \in Gets :
       \/ \E endpoint \in AuthedEndpoints, a \in Accounts : get_current_user(g, endpoint, a)
       \/ get_analytics_overview(g)
       \/ get_detailed_analytics(g)
       \/ \E limit \in PageLimits, offset \in Offsets : get_not_following_back(g, limit, offset)
       \/ \E limit \in PageLimits, offset \in Offsets : get_not_followed_back(g, limit, offset)
       \/ \E limit \in PageLimits, offset \in Offsets : get_mutual_friends(g, limit, offset)
       \/ get_new_followers(g)
       \/ get_lost_followers(g)
       \/ check_can_sync(g)
       \/ get_sync_status(g)
       \/ \E loaded \in BOOLEAN, answered \in BOOLEAN : get_profile(g, loaded, answered)
       \/ \E cached \in BOOLEAN : get_profile_pic(g, cached)
       \/ \E is_caching \in BOOLEAN : get_image_cache_status(g, is_caching)
       \/ \E cached \in BOOLEAN : check_has_cached_pic(g, cached)

ReadSpec == InitRead /\ [][ReadNext]_vars

(***************************************************************************)
(* CacheSpec: image_cache_service.py, the tasks perform_sync creates to    *)
(* fetch profile pictures.  The tasks of two syncs share the module-level  *)
(* image_cache_status and the directory of pictures.  A task suspends at   *)
(* the HTTP request of download_profile_pic and at the sleep between two   *)
(* pictures; the code between is one action.                               *)
(***************************************************************************)
MaxCacheTasks == 2
CacheTasks == 1..MaxCacheTasks

\* profile_pic_url of an entry: None, the URL of Instagram's default picture
\* (download_profile_pic lines 55-56), or any other URL
PicUrls == {"none", "default", "url"}

Picture(id, name, url) == [ig_id |-> id, username |-> name, profile_pic_url |-> url]

\* the followers and following lists the syncs hand to their tasks
CacheFollowers ==
    {<< >>,
     <<Picture(1, <<65>>, "url")>>,
     <<Picture(1, <<65>>, "url"), Picture(2, <<66>>, "url")>>,
     <<Picture(3, <<67>>, "none"), Picture(1, <<65>>, "url")>>}
CacheFollowing ==
    {<< >>,
     <<Picture(2, <<66>>, "url")>>,
     <<Picture(4, <<68>>, "default"), Picture(1, <<65>>, "url")>>}

\* the Instagram ids of the accounts that sync
OwnIds == {0, 5}

\* lines 110-117: the account's own entry, username "you"
OwnPicture(user_ig_id, user_profile_pic_url) ==
    Picture(user_ig_id, <<121, 111, 117>>, user_profile_pic_url)

IdleCacheTask == [pc |-> "none", users_to_cache |-> << >>, i |-> 0]

\* lines 119-139: one of the two loops; an entry is added unless its id was
\* seen or its picture is in the directory
RECURSIVE AddUsers(_, _, _)
AddUsers(acc, list, already_cached) ==
    IF list = << >> THEN acc
    ELSE LET user == Head(list)
             seen_ids == {acc[k].ig_id : k \in 1..Len(acc)}
         IN  AddUsers(IF user.ig_id \notin seen_ids /\ user.ig_id \notin already_cached
                      THEN Append(acc, user) ELSE acc,
                      Tail(list), already_cached)

\* lines 103-139
users_to_cache(user_profile_pic_url, user_ig_id, followers, following, already_cached) ==
    LET own == IF user_ig_id \notin already_cached
               THEN <<OwnPicture(user_ig_id, user_profile_pic_url)>> ELSE << >>
    IN  AddUsers(AddUsers(own, followers, already_cached), following, already_cached)

\* lines 174-185: past picture i of the list: sleep if more are left, else
\* mark the status done
AfterPicture(st, list, i) ==
    IF i < Len(list)
    THEN [status |-> st, task |-> [pc |-> "sleep", users_to_cache |-> list, i |-> i]]
    ELSE [status |-> [st EXCEPT !.is_caching = FALSE, !.current_user = << >>],
          task |-> [pc |-> "done", users_to_cache |-> list, i |-> i]]

\* lines 156-172 and download_profile_pic lines 50-62: picture i is taken up.
\* Without a URL, with the default picture's URL or with the file already in
\* the directory the outcome is known without a suspension; otherwise the
\* task waits for the HTTP response.
TakePicture(st, list, i, pics) ==
    LET user == list[i]
        cur == [st EXCEPT !.current_user = user.username]
    IN  IF user.profile_pic_url \in {"none", "default"}
        THEN AfterPicture([cur EXCEPT !.failed = @ + 1], list, i)
        ELSE IF user.ig_id \in pics
        THEN AfterPicture([cur EXCEPT !.completed = @ + 1], list, i)
        ELSE [status |-> cur,
              task |-> [pc |-> "download", users_to_cache |-> list, i |-> i]]

\* lines 90-156: the task starts: it builds its list, replaces the status and
\* takes up the first picture
cache_profile_pictures(t) ==
    /\ cache_tasks[t].pc = "none"
    /\ \E user_profile_pic_url \in {"none", "url"}, user_ig_id \in OwnIds,
          followers \in CacheFollowers, following \in CacheFollowing :
         LET list == users_to_cache(user_profile_pic_url, user_ig_id, followers,
                                    following, profile_pics)
             fresh == [is_caching |-> TRUE, total |-> Len(list), completed |-> 0,
                       failed |-> 0, current_user |-> << >>, started_at |-> now]
         IN  IF Len(list) = 0
             THEN /\ cache_tasks' = [cache_tasks EXCEPT ![t].pc = "done"]
                  /\ UNCHANGED image_cache_status
             ELSE LET next == TakePicture(fresh, list, 1, profile_pics)
                  IN  /\ image_cache_status' = next.status
                      /\ cache_tasks' = [cache_tasks EXCEPT ![t] = next.task]
    /\ UNCHANGED <<now, syncVars, authVars, limiterVars, computeVars, readVars,
                   profile_pics>>

\* download_profile_pic lines 64-87 and lines 163-169: the HTTP request has
\* ended: with an image, which is written to the directory, or without one
Downloaded(t) ==
    /\ cache_tasks[t].pc = "download"
    /\ \E success \in BOOLEAN :
         LET task == cache_tasks[t]
             user == task.users_to_cache[task.i]
             st == IF success
                   THEN [image_cache_status EXCEPT !.completed = @ + 1]
                   ELSE [image_cache_status EXCEPT !.failed = @ + 1]
             next == AfterPicture(st, task.users_to_cache, task.i)
         IN  /\ profile_pics' = IF success THEN profile_pics \cup {user.ig_id}
                                ELSE profile_pics
             /\ image_cache_status' = next.status
             /\ cache_tasks' = [cache_tasks EXCEPT ![t] = next.task]
    /\ UNCHANGED <<now, syncVars, authVars, limiterVars, computeVars, readVars>>

\* lines 174-176: the sleep of one second is over, the next picture is taken up
Slept(t) ==
    /\ cache_tasks[t].pc = "sleep"
    /\ LET task == cache_tasks[t]
           next == TakePicture(image_cache_status, task.users_to_cache, task.i + 1,
                               profile_pics)
       IN  /\ image_cache_status' = next.status
           /\ cache_tasks' = [cache_tasks EXCEPT ![t] = next.task]
    /\ UNCHANGED <<now, syncVars, authVars, limiterVars, computeVars, readVars,
                   profile_pics>>

InitCache ==
    /\ now = StartTick
    /\ sync_cooldown_hours = 0
    /\ users = << >>
    /\ followers_snapshot = {}
    /\ following_snapshot = {}
    /\ analytics_cache = << >>
    /\ sync_status = << >>
    /\ req = << >>
    /\ run = << >>
    /\ writes = << >>
    /\ image_tasks = {}
    /\ storage_faults = 0
    /\ InitAuthIdle
    /\ requests = << >>
    /\ limits = << >>
    /\ checks = << >>
    /\ arguments = << >>
    /\ report = << >>
    /\ hash_seed = 0
    /\ report_again = << >>
    /\ gets = << >>
    /\ image_cache_status = IdleCacheStatus
    /\ profile_pics \in {{}, {1}}
    /\ cache_tasks = [t \in CacheTasks |-> IdleCacheTask]

CacheNext ==
    \E t \in CacheTasks :
       \/ cache_profile_pictures(t)
       \/ Downloaded(t)
       \/ Slept(t)

CacheSpec == InitCache /\ [][CacheNext]_vars

(***************************************************************************)
(* The claims about the sync requests and the background sync runs         *)
(***************************************************************************)

\* C1: at most one background sync run per account is active at any time: from
\* its acceptance until its last step, the steps after it marks completion
\* included, no other run of the account has been accepted.
C1_OneActiveRunPerAccount ==
    \A r1 \in Runs, r2 \in Runs :
       (/\ r1 # r2
        /\ run[r1].pc \notin {"none", "finished"}
        /\ run[r2].pc \notin {"none", "finished"})
       => run[r1].user_id # run[r2].user_id

\* C2: every accepted sync reaches a terminal status with is_syncing = false:
\* the step by which a run leaves the body of perform_sync, on whichever exit
\* path, leaves the record of its account not syncing, and a record that shows
\* is_syncing = true does not stay so.
C2_SyncAlwaysTerminates ==
    /\ [][\A r \in Runs :
            (/\ run[r].pc \notin {"none", "fetch_user", "finished"}
             /\ run'[r].pc \in {"fetch_user", "finished"})
            => ~sync_status'[Key(r)].is_syncing]_vars
    /\ \A a \in Accounts :
          (/\ status_key_of(a) \in DOMAIN sync_status
           /\ sync_status[status_key_of(a)].is_syncing)
          ~> (\/ status_key_of(a) \notin DOMAIN sync_status
              \/ ~sync_status[status_key_of(a)].is_syncing)
    /\ \A r \in Reqs : (run[r].pc = "queued") ~> (run[r].pc = "finished")

\* a run has ended through the generic handler, and the record is not syncing
C2_Witness ==
    \E r \in Runs :
       /\ run[r].pc = "finished"
       /\ run[r].outcome = "error"
       /\ ~sync_status[Key(r)].is_syncing
       /\ sync_status[Key(r)].current_task = "Error: storage"

\* C3: a followers or following fetch that meets the remote rate-limit signal
\* ends the run at once: the record is left not syncing with the error message
\* as current_task, and the run has written no snapshot row, no cache row and
\* no last-sync timestamp.
C3_RateLimitAborts ==
    [][\A r \in Runs :
         (\/ run'[r].followers_fetch.kind = "PleaseWaitFewMinutes"
          \/ run'[r].following_fetch.kind = "PleaseWaitFewMinutes")
         => /\ run'[r].pc = "finished"
            /\ run'[r].outcome = "rate_limited"
            /\ writes'[r] = {}
            /\ run[r].pc # "finished"
               => /\ ~sync_status'[Key(r)].is_syncing
                  /\ sync_status'[Key(r)].current_task = RateLimitMessage
                  /\ sync_status'[Key(r)].progress < 100
                  /\ storeVars' = storeVars]_vars

\* the following fetch of a run met the rate limit after its followers fetch
\* had returned
C3_Witness ==
    \E r \in Runs :
       /\ run[r].pc = "finished"
       /\ run[r].followers_fetch.kind = "ok"
       /\ run[r].following_fetch.kind = "PleaseWaitFewMinutes"
       /\ sync_status[Key(r)].current_task = RateLimitMessage

\* C4, as the specification states it: a fetch that fails with anything but
\* the rate-limit signal (a bad request, or any other failure) does not end the
\* run: the run goes on with the empty list for that side.
C4_AnyOtherFailureContinues ==
    [][\A r \in Runs :
         /\ (/\ run[r].followers_fetch.kind = "none"
             /\ run'[r].followers_fetch.kind \in {"ClientBadRequestError", "Exception"})
            => (run'[r].pc = "delay2" /\ run'[r].followers = << >>)
         /\ (/\ run[r].following_fetch.kind = "none"
             /\ run'[r].following_fetch.kind \in {"ClientBadRequestError", "Exception"})
            => (run'[r].pc = "delete_followers" /\ run'[r].following = << >>)]_vars

\* C4, as the code has it: a fetch that fails with a bad request whose message
\* does not mention "400" or "bad request", or with any other failure that is
\* not the rate-limit signal, does not end the run: the run goes on with the
\* empty list for that side, and the step by which such a run completes leaves
\* the record not syncing, at progress 100, with the completion message.
C4_Degrades(fetch) ==
    \/ fetch.kind = "Exception"
    \/ fetch.kind = "ClientBadRequestError" /\ ~fetch.mentions_400

C4_OtherFailureContinues ==
    [][\A r \in Runs :
         /\ (run[r].followers_fetch.kind = "none" /\ C4_Degrades(run'[r].followers_fetch))
            => (run'[r].pc = "delay2" /\ run'[r].followers = << >>)
         /\ (run[r].following_fetch.kind = "none" /\ C4_Degrades(run'[r].following_fetch))
            => (run'[r].pc = "delete_followers" /\ run'[r].following = << >>)
         /\ (/\ C4_Degrades(run[r].followers_fetch) \/ C4_Degrades(run[r].following_fetch)
             /\ run[r].outcome = "none"
             /\ run'[r].outcome = "complete")
            => /\ ~sync_status'[Key(r)].is_syncing
               /\ sync_status'[Key(r)].progress = 100
               /\ sync_status'[Key(r)].current_task = "Sync complete!"]_vars

\* a run whose two fetches both failed, one with a bad request that is not a
\* restriction and one with another failure, has completed
C4_Witness ==
    \E r \in Runs :
       /\ run[r].outcome = "complete"
       /\ run[r].followers_fetch = [kind |-> "ClientBadRequestError", mentions_400 |-> FALSE]
       /\ run[r].following_fetch.kind = "Exception"
       /\ "last_sync" \in writes[r]
       /\ sync_status[Key(r)].progress = 100

\* C5, as the specification states it: a sync request handled with
\* now < last_sync + cooldown is rejected: no run is started, the registry is
\* unchanged, the response carries the remaining seconds.
C5_InCooldown(q) ==
    /\ req[q].last_sync # NoTime
    /\ now < req[q].last_sync + sync_cooldown_hours * HourTicks

C5_Rejected(q) ==
    /\ run' = run
    /\ sync_status' = sync_status
    /\ ~req'[q].response.success
    /\ req'[q].response.message = "Please wait"
    /\ req'[q].response.seconds_until_next_sync =
          (req[q].last_sync + sync_cooldown_hours * HourTicks - now) \div SecondTicks

C5_CooldownRejects ==
    [][\A q \in Reqs :
         (req[q].pc = "authed" /\ req'[q].pc = "done" /\ C5_InCooldown(q))
         => C5_Rejected(q)]_vars

\* C5, as the code has it: a sync request without the force override, handled
\* with now < last_sync_at + cooldown for the last_sync_at of the user row the
\* request was given, is rejected: no run is started, the registry is
\* unchanged, the response carries the remaining seconds.
C5_CooldownRejectsUnforced ==
    [][\A q \in Reqs :
         (req[q].pc = "authed" /\ req'[q].pc = "done" /\ C5_InCooldown(q) /\ ~req[q].force)
         => C5_Rejected(q)]_vars

\* a request has been turned away within the cooldown of a completed sync
C5_Witness ==
    \E q \in Reqs :
       /\ req[q].pc = "done"
       /\ req[q].response.message = "Please wait"
       /\ req[q].response.seconds_until_next_sync > 0
       /\ \E r \in Runs : "last_sync" \in writes[r]

\* C6: of two sync requests of an account, one is accepted and the other is
\* not: a request handled while an accepted run of the account has not yet
\* made its terminal status update starts no run, and unless the cooldown
\* turns it away it is answered "Sync already in progress".
C6_OneOfTwoAccepted ==
    [][\A q \in Reqs :
         (/\ req[q].pc = "authed"
          /\ req'[q].pc = "done"
          /\ \E r \in Runs :
                /\ run[r].user_id = req[q].user_id
                /\ run[r].pc \notin {"none", "fetch_user", "finished"})
         => /\ run' = run
            /\ ~req'[q].response.success
            /\ req'[q].response.message \in {"Sync already in progress", "Please wait"}]_vars

\* C7: once a sync has marked itself complete, no failure of what it does
\* afterwards to start the image caching changes the status record of the
\* account or what the sync has stored.
C7_TailLeavesStatusAlone ==
    [][\A r \in Runs :
         (run[r].pc = "fetch_user" /\ run'[r].pc = "finished")
         => (sync_status' = sync_status /\ storeVars' = storeVars)]_vars

\* C8: the previous followers handed to compute_analytics are the followers of
\* the most recent stored snapshot dated before the day of the sync, and None
\* only when the account has no snapshot dated before that day.
C8_BaselineIsLatestEarlierSnapshot ==
    [][\A r \in Runs :
         (run[r].pc \in {"prev_dates", "prev_rows"} /\ run'[r].pc = "delay2")
         => LET earlier == {x \in followers_snapshot :
                              /\ x.user_id = run[r].user_id
                              /\ DateOf(x.snapshot_date) < DateOf(now)}
                latest == {x \in earlier :
                              \A y \in earlier : DateOf(y.snapshot_date) <= DateOf(x.snapshot_date)}
            IN  IF earlier = {}
                THEN run'[r].previous_followers = None
                ELSE /\ run'[r].previous_followers.some
                     /\ SeqToSet(run'[r].previous_followers.val) =
                           {InstagramUser(x.ig_id, x.username) : x \in latest}]_vars

\* a step by which run r leaves perform_sync without having marked the sync
\* complete
C26_EndsErrored(r) ==
    /\ run[r].pc \notin {"none", "fetch_user", "finished"}
    /\ run'[r].pc = "finished"
    /\ run'[r].outcome \notin {"complete", "complete_then_error"}

\* C26: the cache holds one report per account; when a sync marks itself
\* complete the cache row of its account is the report that sync computed,
\* and a sync that fails or is aborted leaves the row as it was when the
\* sync started.
C26_CacheIsLatestSuccessfulReport ==
    [][\A r \in Runs :
         /\ (run[r].pc = "update_user" /\ run'[r].pc = "fetch_user")
            => /\ run[r].user_id \in DOMAIN analytics_cache'
               /\ analytics_cache'[run[r].user_id].data = run[r].analytics.val
         /\ C26_EndsErrored(r)
            => IF run[r].pc = "queued"
               THEN analytics_cache' = analytics_cache
               ELSE analytics_cache' = run[r].before[4]]_vars

\* the rows that a sync which has marked itself complete stored, and the
\* rows of the earlier days, which the earlier syncs stored
C27_StoredBySuccess(x) ==
    \/ DateOf(x.snapshot_date) < DateOf(StartTick)
    \/ \E r \in Runs :
          /\ run[r].pc \in {"fetch_user", "finished"}
          /\ run[r].outcome \in {"complete", "complete_then_error"}
          /\ run[r].user_id = x.user_id
          /\ run[r].snapshot_date = x.snapshot_date

\* C27: the snapshot history is append-only: when a sync marks itself
\* complete the store holds the one snapshot it took, its follower and its
\* following rows, and no step deletes a follower or following row that a
\* successful sync has stored.
C27_SnapshotsAppendOnly ==
    [][/\ \A x \in followers_snapshot :
             C27_StoredBySuccess(x) => x \in followers_snapshot'
       /\ \A x \in following_snapshot :
             C27_StoredBySuccess(x) => x \in following_snapshot'
       /\ \A r \in Runs :
             (run[r].pc = "update_user" /\ run'[r].pc = "fetch_user")
             => /\ {x \in followers_snapshot' :
                      /\ x.user_id = run[r].user_id
                      /\ x.snapshot_date = run[r].snapshot_date}
                   = {SnapshotRow(run[r].user_id, run[r].snapshot_date, run[r].followers[i]) :
                         i \in 1..Len(run[r].followers)}
                /\ {x \in following_snapshot' :
                      /\ x.user_id = run[r].user_id
                      /\ x.snapshot_date = run[r].snapshot_date}
                   = {SnapshotRow(run[r].user_id, run[r].snapshot_date, run[r].following[i]) :
                         i \in 1..Len(run[r].following)}]_vars

\* C28: when a background sync ends errored, not syncing and short of
\* progress 100, the snapshot rows, the cache row and last_sync_at of the
\* account are what they were when the sync started, also when a database
\* write of the persist steps has failed.
C28_ErroredSyncChangesNothing ==
    [][\A r \in Runs :
         (/\ run[r].pc \notin {"none", "fetch_user", "finished"}
          /\ run'[r].pc = "finished"
          /\ ~sync_status'[Key(r)].is_syncing
          /\ sync_status'[Key(r)].progress < 100)
         => storeVars' = (IF run[r].pc = "queued" THEN storeVars ELSE run[r].before)]_vars

\* C29: can_sync(None) is (True, None); can_sync with now >= last_sync +
\* cooldown is (True, None); can_sync with last_sync = now and a cooldown
\* above 0 is (False, remaining), remaining being the whole seconds of the
\* cooldown less the time elapsed since last_sync.
C29_CanSyncCases ==
    report.returned
    => LET last_sync == arguments.last_sync
           length == sync_cooldown_hours * HourTicks
       IN  /\ last_sync = NoTime
              => report.value = [allowed |-> TRUE, seconds_remaining |-> NoTime]
           /\ (last_sync # NoTime /\ now >= last_sync + length)
              => report.value = [allowed |-> TRUE, seconds_remaining |-> NoTime]
           /\ (last_sync # NoTime /\ last_sync <= now /\ now < last_sync + length)
              => /\ ~report.value.allowed
                 /\ report.value.seconds_remaining =
                       (length - (now - last_sync)) \div SecondTicks

\* can_sync has been asked at the instant of the last sync, under a cooldown
C29_Witness ==
    /\ report.returned
    /\ arguments.last_sync = now
    /\ sync_cooldown_hours = 1
    /\ ~report.value.allowed
    /\ report.value.seconds_remaining = HourTicks \div SecondTicks

\* C30: when sync_analytics accepts a request, the status record of the
\* account says is_syncing = True and progress = 0 when the request returns;
\* the request returns before any step of perform_sync has run, and the
\* status in its response says is_syncing = True.
C30_AcceptMarksSyncing ==
    [][\A q \in Reqs :
         (req[q].pc = "authed" /\ req'[q].pc = "done" /\ req'[q].response.success)
         => LET key == status_key_of(req[q].user_id)
            IN  /\ key \in DOMAIN sync_status'
                /\ sync_status'[key].is_syncing
                /\ sync_status'[key].progress = 0
                /\ run'[q].pc = "queued"
                /\ run'[q].user_id = req[q].user_id
                /\ req'[q].response.status = sync_status'[key]
                /\ req'[q].response.status.is_syncing
                /\ storeVars' = storeVars]_vars

\* a request has been accepted and has returned; its run has not begun
C30_Witness ==
    \E q \in Reqs :
       /\ req[q].pc = "done"
       /\ req[q].response.success
       /\ run[q].pc = "queued"
       /\ sync_status[status_key_of(run[q].user_id)].is_syncing
       /\ sync_status[status_key_of(run[q].user_id)].progress = 0

\* C25: no GET endpoint under analytics/ calls the remote account client,
\* and none changes a snapshot row, a cache row, an account record or a
\* status record.
C25_GetsOnlyRead ==
    [][\A g \in Gets :
         gets'[g] # gets[g]
         => /\ gets'[g].remote_calls = 0
            /\ storeVars' = storeVars
            /\ sync_status' = sync_status]_vars

\* the database calls of save_snapshot
C31_SnapshotPcs == {"delete_followers", "delete_following", "insert_follower",
                    "insert_following"}

\* C31: a sync that succeeds stores the snapshot, then the cache row, then
\* last_sync_at, and only then marks the status record progress = 100 and not
\* syncing: a run never has written the cache before its snapshot is stored,
\* nor last_sync_at before the cache, and the step that sets progress to 100
\* is taken by a run whose three writes are done.
C31_FinalStepsInOrder ==
    /\ [](\A r \in Runs :
            /\ "cache" \in writes[r]
               => ("snapshot" \in writes[r] /\ run[r].pc \notin C31_SnapshotPcs)
            /\ "last_sync" \in writes[r] => "cache" \in writes[r]
            /\ run[r].outcome \in {"complete", "complete_then_error"}
               => writes[r] = {"snapshot", "cache", "last_sync"})
    /\ [][\A a \in Accounts :
            (/\ status_key_of(a) \in DOMAIN sync_status
             /\ sync_status[status_key_of(a)].progress # 100
             /\ sync_status'[status_key_of(a)].progress = 100)
            => \E r \in Runs :
                  /\ run[r].user_id = a
                  /\ run[r].pc = "update_user"
                  /\ run'[r].outcome = "complete"
                  /\ writes'[r] = {"snapshot", "cache", "last_sync"}
                  /\ ~sync_status'[status_key_of(a)].is_syncing
                  /\ a \in DOMAIN analytics_cache
                  /\ users'[a].last_sync_at = now]_vars

\* a run has marked its sync complete
C31_Witness ==
    \E r \in Runs :
       /\ run[r].outcome = "complete"
       /\ sync_status[Key(r)].progress = 100
       /\ ~sync_status[Key(r)].is_syncing
       /\ writes[r] = {"snapshot", "cache", "last_sync"}

\* C32: under a cooldown above 0, a sync request without the force override
\* is accepted only if the cooldown has elapsed since the last_sync_at that
\* the latest completed sync of the account has stored: the value the guard
\* decides on is the stored one, never one that a completed run has replaced.
C32_GuardSeesLatestSync ==
    [][\A q \in Reqs :
         (/\ req[q].pc = "authed"
          /\ req'[q].pc = "done"
          /\ req'[q].response.success
          /\ ~req[q].force
          /\ sync_cooldown_hours > 0)
         => LET stored == users[req[q].user_id].last_sync_at
            IN  /\ req[q].last_sync = stored
                /\ stored = NoTime \/ now >= stored + sync_cooldown_hours * HourTicks]_vars

\* the capture timestamps of the rows an account has for a calendar date
C33_Captures(a, d) ==
    {x.snapshot_date : x \in {y \in followers_snapshot \cup following_snapshot :
                                y.user_id = a /\ DateOf(y.snapshot_date) = d}}

\* C33: when every sync that was started has succeeded and none is under
\* way, the follower and following rows an account has for one calendar date
\* carry at most one capture timestamp: a later sync of the day has replaced
\* the snapshot of the earlier one.
C33_OneSnapshotPerDay ==
    (\A r \in Runs :
        /\ run[r].pc \in {"none", "finished"}
        /\ run[r].pc = "finished" => run[r].outcome \in {"complete", "complete_then_error"})
    => \A a \in Accounts, d \in 0..DateOf(LastTick) :
          Cardinality(C33_Captures(a, d)) <= 1

\* the largest total the progress callbacks are tried with
MaxTotal == 6

\* the progress values a step of run r has just stored, if it stored any
C39_Wrote(r) == IF run'[r].wrote # run[r].wrote THEN run'[r].wrote ELSE << >>

\* C39: every status record has 0 <= progress <= 100; the two fetch progress
\* callbacks give, for every (current, total) with 0 <= current <= total, a
\* value within the range of their fetch (20..45, 50..75) that does not fall
\* as current grows and is the start of the range when total = 0; and the
\* progress values one sync run stores never fall, within a step and from one
\* step of the run to its next; they start no lower than the record stood
\* and the last of them is what the record then shows.
C39_ProgressInRangeAndRising ==
    /\ [](\A k \in DOMAIN sync_status : sync_status[k].progress \in 0..100)
    /\ [](\A total \in 0..MaxTotal : \A current \in 0..total :
            /\ update_follower_progress(current, total) \in 20..45
            /\ update_following_progress(current, total) \in 50..75
            /\ total = 0 => /\ update_follower_progress(current, total) = 20
                            /\ update_following_progress(current, total) = 50
            /\ current > 0 =>
                  /\ update_follower_progress(current - 1, total)
                        <= update_follower_progress(current, total)
                  /\ update_following_progress(current - 1, total)
                        <= update_following_progress(current, total))
    /\ [][\A r \in Runs :
            LET w == C39_Wrote(r)
                k == status_key_of(run'[r].user_id)
                before == run[r].wrote
            IN  w # << >> =>
                  /\ \A i \in 1..Len(w) : w[i] \in 0..100
                  /\ \A i \in 1..(Len(w) - 1) : w[i] <= w[i + 1]
                  /\ before # << >> => before[Len(before)] <= w[1]
                  /\ sync_status[k].progress <= w[1]
                  /\ sync_status'[k].progress = w[Len(w)]]_vars

(***************************************************************************)
(* The claims about the login state machine                                *)
(***************************************************************************)

\* C9: a completion attempt, complete_2fa or complete_challenge, with a
\* session id that is not in the challenge table returns the failure
\* "Session expired.": it returns a value, it has not touched the remote
\* client, and the challenge table is as it was.
C9_AbsentTokenIsSessionExpired ==
    [][\A c \in CompletionSlots :
         (/\ completions[c].pc = "idle"
          /\ completions'[c].pc # "idle"
          /\ completions'[c].session_id \notin DOMAIN pending_challenges)
         => /\ completions'[c].pc = "done"
            /\ completions'[c].response = Failure("Session expired.")
            /\ ~completions'[c].contacted
            /\ pending_challenges' = pending_challenges]_vars

\* a completion of each kind has been turned away for a session id that
\* login had produced for an attempt that stored no challenge
C9_Witness ==
    /\ pending_challenges = << >>
    /\ next_uuid >= 1
    /\ \E c1 \in CompletionSlots, c2 \in CompletionSlots :
          /\ completions[c1].op = "2fa"
          /\ completions[c2].op = "challenge"
          /\ completions[c1].session_id = 1
          /\ completions[c2].session_id = NeverIssued
          /\ completions[c1].response.error = "Session expired."
          /\ completions[c2].response.error = "Session expired."

\* C10: a completion attempt with a session id whose challenge is older than
\* CHALLENGE_EXPIRY_MINUTES returns "Session expired." and the entry is gone
\* after that attempt, whether or not a login has run since it expired.
C10_ExpiredTokenIsSessionExpired ==
    [][\A c \in CompletionSlots :
         (/\ completions[c].pc = "idle"
          /\ completions'[c].pc # "idle"
          /\ completions'[c].session_id \in DOMAIN pending_challenges
          /\ now - pending_challenges[completions'[c].session_id].created_at
                > CHALLENGE_EXPIRY_MINUTES)
         => /\ completions'[c].pc = "done"
            /\ completions'[c].response = Failure("Session expired.")
            /\ completions'[c].session_id \notin DOMAIN pending_challenges']_vars

\* C11: a completion attempt that fails after it has reached the remote client
\* (the client rejects the code, or raises) leaves no challenge for its session
\* id: a second attempt with the id gets "Session expired.".
C11_FailedCompletionIsOneShot ==
    [][\A c \in CompletionSlots :
         (/\ completions[c].pc # "done"
          /\ completions'[c].pc = "done"
          /\ completions'[c].contacted
          /\ ~completions'[c].response.success)
         => completions'[c].session_id \notin DOMAIN pending_challenges']_vars

\* C12, as the specification states it: complete_2fa on a challenge of type
\* "challenge", and complete_challenge on one of type "2fa", fail with
\* "Session expired.", the answer for an absent session id.
C12_Mismatch(c) ==
    /\ completions[c].pc = "idle"
    /\ completions'[c].pc # "idle"
    /\ completions'[c].session_id \in DOMAIN pending_challenges
    /\ pending_challenges[completions'[c].session_id].type # completions'[c].op

C12_MismatchIsSessionExpired ==
    [][\A c \in CompletionSlots :
         C12_Mismatch(c)
         => /\ completions'[c].pc = "done"
            /\ completions'[c].response = Failure("Session expired.")]_vars

\* C12, as the code has it: complete_2fa on a challenge of type "challenge",
\* and complete_challenge on one of type "2fa", fail with "Invalid challenge
\* type", which is not the answer for an absent session id; the remote client
\* is not contacted and the challenge table is unchanged.
C12_MismatchIsInvalidType ==
    [][\A c \in CompletionSlots :
         C12_Mismatch(c)
         => /\ completions'[c].pc = "done"
            /\ completions'[c].response = Failure("Invalid challenge type")
            /\ ~completions'[c].contacted
            /\ pending_challenges' = pending_challenges]_vars

\* each completion has been tried on a challenge of the other type
C12_Witness ==
    \E c1 \in CompletionSlots, c2 \in CompletionSlots :
       /\ completions[c1].op = "2fa"
       /\ completions[c2].op = "challenge"
       /\ completions[c1].response.error = "Invalid challenge type"
       /\ completions[c2].response.error = "Invalid challenge type"
       /\ completions[c1].session_id \in DOMAIN pending_challenges
       /\ completions[c2].session_id \in DOMAIN pending_challenges

\* C13: a completion that has returned the authenticated outcome has deleted
\* its challenge: the session id is not in the table from then on, and an
\* attempt made with it afterwards gets "Session expired.".
C13_SuccessDeletesChallenge ==
    [][\A c \in CompletionSlots :
         /\ (completions'[c].pc = "done" /\ completions'[c].response.success)
            => completions'[c].session_id \notin DOMAIN pending_challenges'
         /\ (/\ completions[c].pc = "idle"
             /\ completions'[c].pc # "idle"
             /\ \E d \in CompletionSlots :
                   /\ completions[d].response.success
                   /\ completions[d].session_id = completions'[c].session_id)
            => completions'[c].response = Failure("Session expired.")]_vars

\* a completion has authenticated and a later one with the same session id
\* has been turned away
C13_Witness ==
    \E c \in CompletionSlots, d \in CompletionSlots :
       /\ completions[c].response.success
       /\ completions[d].pc = "done"
       /\ completions[d].session_id = completions[c].session_id
       /\ completions[d].response = Failure("Session expired.")
       /\ ~completions[d].contacted

\* C14: login adds a challenge exactly when it returns requires_2fa or
\* requires_challenge: the entry is under the session id it returns, which
\* was not in the table, has the matching type and the username of the call;
\* nothing else is ever added to the table.
C14_LoginStoresOneChallenge ==
    [][LET added == DOMAIN pending_challenges' \ DOMAIN pending_challenges
       IN  /\ \A l \in LoginSlots :
                logins'[l] # logins[l]
                => LET resp == logins'[l].response
                   IN  IF logins'[l].pc = "done"
                          /\ resp.outcome \in {"requires_2fa", "requires_challenge"}
                       THEN /\ added = {resp.session_id}
                            /\ pending_challenges'[resp.session_id].type =
                                  (IF resp.outcome = "requires_2fa" THEN "2fa"
                                   ELSE "challenge")
                            /\ pending_challenges'[resp.session_id].username =
                                  logins'[l].username
                            /\ pending_challenges'[resp.session_id].created_at = now
                       ELSE added = {}
           /\ logins' = logins => added = {}
           /\ \A k \in DOMAIN pending_challenges \cap DOMAIN pending_challenges' :
                 pending_challenges'[k] = pending_challenges[k]]_vars

\* two logins are in flight, one with a challenge of each type
C14_Witness ==
    /\ DOMAIN pending_challenges = {1, 2}
    /\ pending_challenges[1].type = "2fa"
    /\ pending_challenges[2].type = "challenge"
    /\ logins[1].response.outcome = "requires_2fa"
    /\ logins[2].response.outcome = "requires_challenge"

\* C15: a login that ends in a failure returns a reason and keeps nothing of
\* the attempt: but for the entries older than CHALLENGE_EXPIRY_MINUTES, which
\* its first step evicts, the challenge table is what it was before the call.
C15_FailedLoginKeepsNothing ==
    [][\A l \in LoginSlots :
         (/\ logins[l].pc # "done"
          /\ logins'[l].pc = "done"
          /\ logins'[l].response.outcome = "failure")
         => /\ logins'[l].response.error \notin {"", "none"}
            /\ pending_challenges' =
                  IF logins[l].pc = "delay" THEN pending_challenges
                  ELSE [k \in {j \in DOMAIN pending_challenges :
                                  now - pending_challenges[j].created_at
                                     <= CHALLENGE_EXPIRY_MINUTES}
                          |-> pending_challenges[k]]]_vars

\* a login has failed on the password beside the challenge of another login
\* that is still in the table
C15_Witness ==
    /\ logins[2].response.error = "Invalid password"
    /\ logins[1].response.outcome = "requires_challenge"
    /\ 1 \in DOMAIN pending_challenges

\* C16: the eviction at the start of login leaves no challenge older than
\* CHALLENGE_EXPIRY_MINUTES in the table, and leaves every challenge that is
\* not older than that where it was.
C16_EvictionByAge ==
    [][\A l \in LoginSlots :
         (logins[l].pc = "idle" /\ logins'[l].pc # "idle")
         => \A k \in DOMAIN pending_challenges :
               IF now - pending_challenges[k].created_at > CHALLENGE_EXPIRY_MINUTES
               THEN k \notin DOMAIN pending_challenges'
               ELSE /\ k \in DOMAIN pending_challenges'
                    /\ pending_challenges'[k] = pending_challenges[k]]_vars

\* the challenge of the first login has been evicted by the second login,
\* without any completion
C16_Witness ==
    /\ logins[1].response.outcome = "requires_2fa"
    /\ logins[2].pc = "done"
    /\ 1 \notin DOMAIN pending_challenges
    /\ \A c \in CompletionSlots : completions[c].pc = "idle"

\* C17: on every success path the session blob is tagged with the username
\* that was given to the login that started the attempt.
C17_BlobTaggedWithLoginUsername ==
    /\ \A l \in LoginSlots :
          logins[l].response.success => logins[l].response.tagged = logins[l].username
    /\ \A c \in CompletionSlots :
          completions[c].response.success
          => \E l \in LoginSlots :
                /\ logins[l].session_id = completions[c].session_id
                /\ completions[c].response.tagged = logins[l].username

\* C36: of the complete_2fa and complete_challenge calls made with one
\* session id, however they interleave, at most one returns the authenticated
\* outcome, and once one has, the session id is not in the challenge table.
C36_OneCompletionAuthenticates ==
    /\ \A c \in CompletionSlots, d \in CompletionSlots :
          (/\ completions[c].response.success
           /\ completions[d].response.success
           /\ completions[c].session_id = completions[d].session_id)
          => c = d
    /\ \A c \in CompletionSlots :
          completions[c].response.success
          => completions[c].session_id \notin DOMAIN pending_challenges

\* two completions of one session id were both past the guard and
\* suspended; one has authenticated, the other has been refused
C36_Witness ==
    \E c \in CompletionSlots, d \in CompletionSlots :
       /\ c # d
       /\ completions[c].session_id = completions[d].session_id
       /\ completions[c].response.success
       /\ completions[d].pc = "done"
       /\ completions[d].info = "ok"
       /\ ~completions[d].response.success

\* C37: a completion whose session id was in the table when it started and
\* whose code the remote client has accepted returns the authenticated
\* outcome, also when a login has run cleanup_expired_challenges while the
\* completion was suspended in its delay (no other completion uses the
\* session id, and client.user_info answers).
C37_AcceptedCodeAuthenticates ==
    [][\A c \in CompletionSlots :
         (/\ completions[c].pc = "delay"
          /\ completions'[c].pc = "done"
          /\ completions'[c].info = "ok"
          /\ \A d \in CompletionSlots :
                d # c => completions[d].session_id # completions[c].session_id)
         => /\ completions'[c].response.success
            /\ completions'[c].response.outcome = "authenticated"]_vars

(***************************************************************************)
(* The claims about the rate limiter                                       *)
(***************************************************************************)

\* C18: whatever the order of the check_rate_limit calls for an identifier,
\* with max_requests and window_seconds fixed, the requests admitted with a
\* timestamp in any one window (t - window_seconds, t] are at most
\* max_requests.
C18_NeverOverAdmits ==
    \A identifier \in Identifiers, t \in 0..MaxRateNow :
       Cardinality({c \in CheckSlots :
                       /\ checks[c].outcome = "allowed"
                       /\ checks[c].identifier = identifier
                       /\ checks[c].at > t - limits.window_seconds * SecondTicks
                       /\ checks[c].at <= t}) <= limits.max_requests

\* an identifier has been admitted up to its limit, turned away within the
\* window, and admitted again once the window had passed
C18_Witness ==
    /\ limits.max_requests = 1
    /\ limits.window_seconds = 1
    /\ \E c1 \in CheckSlots, c2 \in CheckSlots, c3 \in CheckSlots :
          /\ c1 < c2 /\ c2 < c3
          /\ checks[c1].identifier = "ip1"
          /\ checks[c2].identifier = "ip1"
          /\ checks[c3].identifier = "ip1"
          /\ checks[c1].outcome = "allowed"
          /\ checks[c2].outcome = "RateLimited"
          /\ checks[c3].outcome = "allowed"

\* C19: check_rate_limit first drops the entries of its identifier that are
\* not newer than now - window_seconds; if the request count that remains is
\* at or above max_requests it ends with RateLimited, retry_after being the
\* whole seconds of (oldest retained timestamp + window_seconds - now), and
\* records nothing; otherwise it records one request at now and allows.  The
\* logs of the other identifiers are unchanged.
C19_CheckThenRecord ==
    [][\A c \in CheckSlots :
         (checks[c].pc = "idle" /\ checks'[c].pc = "done")
         => LET identifier == checks'[c].identifier
                log == LogOf(requests, identifier)
                newer == {i \in 1..Len(log) :
                            log[i].timestamp > now - limits.window_seconds * SecondTicks}
                kept == SelectSeq(log, LAMBDA e :
                            e.timestamp > now - limits.window_seconds * SecondTicks)
                count == Cardinality(newer)
            IN  /\ \A i \in DOMAIN requests \ {identifier} :
                      /\ i \in DOMAIN requests'
                      /\ requests'[i] = requests[i]
                /\ IF count >= limits.max_requests
                   THEN /\ checks'[c].outcome = "RateLimited"
                        /\ requests'[identifier] = kept
                        /\ checks'[c].retry_after =
                              (kept[1].timestamp + limits.window_seconds * SecondTicks - now)
                                 \div SecondTicks
                   ELSE /\ checks'[c].outcome = "allowed"
                        /\ requests'[identifier] = Append(kept, Entry(now, 1))]_vars

\* C38: a check_rate_limit call that does not allow the request ends with
\* RateLimited and 0 <= retry_after <= window_seconds, whatever max_requests
\* >= 0, window_seconds >= 0 and the log of the identifier are, the empty log
\* included; it ends with no other fault.
C38_RejectionIsRateLimited ==
    \A c \in CheckSlots :
       (checks[c].pc = "done" /\ checks[c].outcome # "allowed")
       => /\ checks[c].outcome = "RateLimited"
          /\ checks[c].retry_after >= 0
          /\ checks[c].retry_after <= limits.window_seconds

(***************************************************************************)
(* The claims about compute_analytics                                      *)
(***************************************************************************)
C20_Ids(l) == {l[i].ig_id : i \in 1..Len(l)}
C20_Unique(l) == \A i \in 1..Len(l), j \in 1..Len(l) : l[i].ig_id = l[j].ig_id => i = j

\* C20: for a follower list F and a following list G without repeated ids,
\* not_following_back has exactly the ids of G \ F, not_followed_back those
\* of F \ G and mutual_friends those of F \cap G, each id once, and the counts
\* of the overview satisfy not_following_back + mutual_friends = |G| and
\* not_followed_back + mutual_friends = |F|.
C20_SetAlgebra ==
    (/\ report.returned
     /\ C20_Unique(arguments.followers)
     /\ C20_Unique(arguments.following))
    => LET F == C20_Ids(arguments.followers)
           G == C20_Ids(arguments.following)
           r == report.value
       IN  /\ C20_Ids(r.not_following_back) = G \ F
           /\ C20_Ids(r.not_followed_back) = F \ G
           /\ C20_Ids(r.mutual_friends) = F \cap G
           /\ C20_Unique(r.not_following_back)
           /\ C20_Unique(r.not_followed_back)
           /\ C20_Unique(r.mutual_friends)
           /\ r.overview.not_following_back = Cardinality(G \ F)
           /\ r.overview.not_followed_back = Cardinality(F \ G)
           /\ r.overview.mutual_friends = Cardinality(F \cap G)
           /\ r.overview.not_following_back + r.overview.mutual_friends = Cardinality(G)
           /\ r.overview.not_followed_back + r.overview.mutual_friends = Cardinality(F)

\* a report for F = {1, 2} and G = {2, 3}: one id in each of the three lists
C20_Witness ==
    /\ report.returned
    /\ C20_Unique(arguments.followers)
    /\ C20_Unique(arguments.following)
    /\ C20_Ids(arguments.followers) = {1, 2}
    /\ C20_Ids(arguments.following) = {2, 3}
    /\ C20_Ids(report.value.not_following_back) = {3}
    /\ C20_Ids(report.value.not_followed_back) = {1}
    /\ C20_Ids(report.value.mutual_friends) = {2}

C21_Entries(l) == {l[i] : i \in 1..Len(l)}

\* C21: whenever previous_followers is supplied, an empty list included,
\* new_followers has exactly the ids of the current followers that are not in
\* the previous id-set, with the current entity data, and lost_followers has
\* exactly the ids of the previous followers that are not in the current
\* id-set, each entry with the entity data of the previous list.
C21_NewAndLost ==
    (report.returned /\ arguments.previous_followers.some)
    => LET F == arguments.followers
           P == arguments.previous_followers.val
           r == report.value
       IN  /\ C20_Ids(r.new_followers) = C20_Ids(F) \ C20_Ids(P)
           /\ C20_Ids(r.lost_followers) = C20_Ids(P) \ C20_Ids(F)
           /\ C20_Unique(r.new_followers)
           /\ C20_Unique(r.lost_followers)
           /\ C21_Entries(r.new_followers) \subseteq C21_Entries(F)
           /\ C21_Entries(r.lost_followers) \subseteq C21_Entries(P)
           /\ r.overview.new_followers = Len(r.new_followers)
           /\ r.overview.lost_followers = Len(r.lost_followers)

\* C22: compute(F, G, None) and compute(F, G, F) return empty new_followers
\* and lost_followers, for every F and G.
C22_NothingNewNothingLost ==
    (/\ report.returned
     /\ \/ ~arguments.previous_followers.some
        \/ arguments.previous_followers.val = arguments.followers)
    => /\ report.value.new_followers = << >>
       /\ report.value.lost_followers = << >>
       /\ report.value.overview.new_followers = 0
       /\ report.value.overview.lost_followers = 0

\* a report for previous followers that are the current followers, two of them
C22_Witness ==
    /\ report.returned
    /\ arguments.previous_followers.some
    /\ arguments.previous_followers.val = arguments.followers
    /\ Len(arguments.followers) = 2
    /\ report.value.new_followers = << >>
    /\ report.value.lost_followers = << >>

C23_Ordered(l) ==
    \A i \in 1..Len(l), j \in 1..Len(l) :
       i < j => LET ki == [n \in 1..Len(l[i].username) |->
                             IF l[i].username[n] \in 65..90
                             THEN l[i].username[n] + 32 ELSE l[i].username[n]]
                    kj == [n \in 1..Len(l[j].username) |->
                             IF l[j].username[n] \in 65..90
                             THEN l[j].username[n] + 32 ELSE l[j].username[n]]
                IN  \/ StrLess(ki, kj)
                    \/ (ki = kj /\ l[i].ig_id <= l[j].ig_id)

\* C23: followers, following, not_following_back, not_followed_back and
\* mutual_friends are sorted ascending by lowercase username, and entities
\* with the same case-insensitive username are in ascending id order.
C23_SortedWithIdTieBreak ==
    report.returned
    => /\ C23_Ordered(report.value.followers)
       /\ C23_Ordered(report.value.following)
       /\ C23_Ordered(report.value.not_following_back)
       /\ C23_Ordered(report.value.not_followed_back)
       /\ C23_Ordered(report.value.mutual_friends)

\* C24: two calls with the same arguments return the same report, the same
\* entities in the same order in every list, new_followers and
\* lost_followers included, but for last_sync; the arguments are unchanged.
C24_SameReportTwice ==
    (report.returned /\ report_again.returned)
    => /\ report.value.followers = report_again.value.followers
       /\ report.value.following = report_again.value.following
       /\ report.value.not_following_back = report_again.value.not_following_back
       /\ report.value.not_followed_back = report_again.value.not_followed_back
       /\ report.value.mutual_friends = report_again.value.mutual_friends
       /\ report.value.new_followers = report_again.value.new_followers
       /\ report.value.lost_followers = report_again.value.lost_followers
       /\ [report.value.overview EXCEPT !.last_sync = 0] =
             [report_again.value.overview EXCEPT !.last_sync = 0]

\* C34: an id that is in the follower list and in the following list has
\* exactly one entry in mutual_friends, and the entry is the entity the
\* follower list has for the id (the last one, if the list repeats the id),
\* whatever the following list says about it.
C34_MutualFromFollowerList ==
    report.returned
    => LET F == arguments.followers
           G == arguments.following
           m == report.value.mutual_friends
       IN  \A id \in {F[i].ig_id : i \in 1..Len(F)} \cap {G[i].ig_id : i \in 1..Len(G)} :
              /\ Cardinality({i \in 1..Len(m) : m[i].ig_id = id}) = 1
              /\ \A i \in 1..Len(m) :
                    m[i].ig_id = id
                    => \E k \in 1..Len(F) :
                          /\ m[i] = F[k]
                          /\ \A j \in 1..Len(F) : F[j].ig_id = id => j <= k

\* a report for an id that the two lists describe differently
C34_Witness ==
    /\ report.returned
    /\ arguments.followers = <<InstagramUser(1, <<97>>)>>
    /\ arguments.following = <<InstagramUser(1, <<66>>)>>
    /\ report.value.mutual_friends = <<InstagramUser(1, <<97>>)>>

C40_Busy(t) == cache_tasks[t].pc \in {"download", "sleep"}

\* C40: the status never counts more pictures than its total
\* (completed + failed <= total), and is_caching is true whenever some
\* cache_profile_pictures task still has pictures left, the tasks of two
\* syncs running at once included.
C40_StatusCoversTasks ==
    /\ image_cache_status.completed + image_cache_status.failed
          <= image_cache_status.total
    /\ (\E t \in CacheTasks : C40_Busy(t)) => image_cache_status.is_caching

====
